---------------------------- MODULE Spec2Model ----------------------------
(***************************************************************************)
(* Authentication / session subsystem of the BRVM analysis platform API:   *)
(* the token service (utils/security.py), the identity resolver            *)
(* (get_current_user), the auth router (register, login, refresh) and the  *)
(* connection discipline of the router handlers.                            *)
(*                                                                         *)
(* Time is counted in ticks, TicksPerSecond ticks to the second: the clock *)
(* (datetime.utcnow) is finer than the whole seconds a JWT "exp" carries.  *)
(* Strings that the code parses (the "sub" claim, parsed by uuid.UUID) are *)
(* sequences of one-character strings; a Python dict is a function whose   *)
(* DOMAIN is the set of its keys; an Optional value is a set with at most  *)
(* one element.                                                            *)
(***************************************************************************)
EXTENDS Integers, Sequences, FiniteSets, TLC

VARIABLES
    now,        \* the clock, in ticks (datetime.utcnow / PyJWT's "now")
    held,       \* token service runs: the token under test, {} when none
    res,        \* token service runs: the last decode_token call, {} when none
    users,      \* the store's users table: user id -> set of (at most one) row
    usedIds,    \* the user ids the store has given out so far
    portfolios, \* the store's portfolios table: a set of rows
    tokens,     \* the tokens in the clients' hands
    reqs,       \* the requests being served: slot -> request record
    limiter,    \* the rate limiter's storage and the requests let in, per caller
    user_preferences,   \* the store's user_preferences table, once created
    transactions,       \* the store's transactions table: a set of rows
    holdings            \* the store's holdings table: a set of rows

vars ==
    <<now, held, res, users, usedIds, portfolios, tokens, reqs, limiter,
      user_preferences, transactions, holdings>>

---------------------------------------------------------------------------
(* Bounds of the model *)

\* clock resolution: ticks per second (the real clock has 10^6)
TicksPerSecond == 2

(* Configuration: api/config.py *)
ACCESS_TOKEN_EXPIRE_MINUTES == 60
REFRESH_TOKEN_EXPIRE_DAYS == 30
SECRET_KEY == "SECRET_KEY"
ALGORITHM == "HS256"

SecondsPerMinute == 60
SecondsPerDay == 86400

\* timedelta(minutes=m), timedelta(days=d), timedelta(seconds=s) in ticks
Minutes(m) == m * SecondsPerMinute * TicksPerSecond
Days(d) == d * SecondsPerDay * TicksPerSecond
Seconds(s) == s * TicksPerSecond

---------------------------------------------------------------------------
(* Strings as sequences of characters *)

Rep(c, n) == [i \in 1..n |-> c]

LowerHex == {"0", "1", "2", "3", "4", "5", "6", "7", "8", "9",
             "a", "b", "c", "d", "e", "f"}
UpperHex == {"A", "B", "C", "D", "E", "F"}

\* str.lower() on one hexadecimal digit
LowerChar(c) ==
    CASE c = "A" -> "a" [] c = "B" -> "b" [] c = "C" -> "c"
      [] c = "D" -> "d" [] c = "E" -> "e" [] c = "F" -> "f"
      [] OTHER -> c

\* s.replace(c, ""): the characters of s that are not c, in their order
Without(s, c) ==
    LET keep == {i \in 1..Len(s) : s[i] # c}
        nth(k) == CHOOSE i \in keep : Cardinality({j \in keep : j <= i}) = k
    IN  [k \in 1..Cardinality(keep) |-> s[nth(k)]]

\* s.strip("{}"): s from its first to its last character that is no brace
StripBraces(s) ==
    LET keep == {i \in 1..Len(s) : s[i] \notin {"{", "}"}}
        first == CHOOSE i \in keep : \A j \in keep : i <= j
        last == CHOOSE i \in keep : \A j \in keep : j <= i
    IN  IF keep = {} THEN <<>> ELSE SubSeq(s, first, last)

\* the number of hexadecimal digits of a UUID
UuidHexLen == 32

(* uuid.UUID(hex): braces and hyphens are dropped, 32 hexadecimal digits   *)
(* must remain; the value is the number they spell, kept here as the 32    *)
(* digits in lower case.  A set with the value, or {} for ValueError.      *)
(* (The "urn:" and "uuid:" prefixes UUID() also drops need a ":", which    *)
(* no string of the model holds.)                                          *)
UUID(s) ==
    LET hex == Without(StripBraces(s), "-")
    IN  IF Len(hex) = UuidHexLen
           /\ \A i \in 1..Len(hex) : hex[i] \in LowerHex \cup UpperHex
        THEN {[i \in 1..UuidHexLen |-> LowerChar(hex[i])]}
        ELSE {}

\* the characters of str(uuid): the digits in lower case, hyphenated 8-4-4-4-12
UuidChars(u) ==
    SubSeq(u, 1, 8) \o <<"-">> \o SubSeq(u, 9, 12) \o <<"-">>
        \o SubSeq(u, 13, 16) \o <<"-">> \o SubSeq(u, 17, 20) \o <<"-">>
        \o SubSeq(u, 21, 32)

\* the "sub" strings of the model: the spec's "u1", user A's id as str(uuid)
\* writes it, the same id in upper case without hyphens, and user B's id
SubU1 == "u1"
SubA == "aaaaaaaa-aaaa-aaaa-aaaa-aaaaaaaaaaaa"
SubAUpper == "AAAAAAAAAAAAAAAAAAAAAAAAAAAAAAAA"
SubB == "bbbbbbbb-bbbb-bbbb-bbbb-bbbbbbbbbbbb"
Subjects == {SubU1, SubA, SubAUpper, SubB}

\* the characters of each string of the model
Chars(s) ==
    CASE s = SubU1 -> <<"u", "1">>
      [] s = SubA -> UuidChars(Rep("a", UuidHexLen))
      [] s = SubAUpper -> Rep("A", UuidHexLen)
      [] s = SubB -> UuidChars(Rep("b", UuidHexLen))

\* the string of the model with the given characters
Text(cs) == CHOOSE s \in Subjects : Chars(s) = cs

\* str(uuid)
UuidStr(u) == Text(UuidChars(u))

\* UUID(s) for each "sub" string of the model: {} where it raises ValueError
ParsedSub == [s \in Subjects |-> UUID(Chars(s))]

\* str(UUID(s)) for each "sub" string of the model that UUID() takes
ParsedSubStr == [s \in {x \in Subjects : ParsedSub[x] # {}} |->
                    UuidStr(CHOOSE u \in ParsedSub[s] : TRUE)]

\* the user ids of the model (users.id is a UUID column), as str(uuid)
UserIds == {SubA, SubB}

Emails == {"a@x.com", "b@x.com"}

---------------------------------------------------------------------------
(* Python dicts *)

\* d.get(k): the value, or None ({})
Get(d, k) == IF k \in DOMAIN d THEN {d[k]} ELSE {}

\* d.update(e): e's keys override d's
Update(d, e) == [k \in DOMAIN d \cup DOMAIN e |-> IF k \in DOMAIN e THEN e[k] ELSE d[k]]

---------------------------------------------------------------------------
(* PyJWT *)

Algorithms == {"HS256", "HS512"}
Keys == {SECRET_KEY, "another-secret"}

(* jwt.encode(payload, key, algorithm): a datetime "exp" is written as     *)
(* whole seconds (timegm of its utctimetuple: the fraction is dropped).    *)
(* The signature is kept as the key and algorithm that made it.            *)
JwtEncode(payload, key, algorithm) ==
    [payload |-> IF "exp" \in DOMAIN payload
                 THEN Update(payload, [exp |-> payload.exp \div TicksPerSecond])
                 ELSE payload,
     key |-> key,
     alg |-> algorithm]

(* jwt.decode(token, key, algorithms): the algorithm and the signature are *)
(* checked first, the registered claims after; a token is expired when     *)
(* exp <= now.  [err |-> ...] or [err |-> "", payload |-> ...].            *)
JwtDecode(token, key, algorithms, t) ==
    IF token.alg \notin algorithms \/ token.key # key
    THEN [err |-> "InvalidTokenError"]
    ELSE IF "exp" \in DOMAIN token.payload
            /\ token.payload.exp * TicksPerSecond <= t
    THEN [err |-> "ExpiredSignatureError"]
    ELSE [err |-> "", payload |-> token.payload]

---------------------------------------------------------------------------
(* utils/security.py: the token service *)

\* the expires_delta arguments of the model, as Optional[timedelta] in ticks:
\* None, timedelta(0), one tick, one second
ExpiresDeltas == {{}, {0}, {1}, {Seconds(1)}}

\* a create_access_token that gives its tokens the lifetime of refresh tokens
create_access_token_RefreshLifetime(data, expires_delta, t) ==
    LET expire == t + Days(REFRESH_TOKEN_EXPIRE_DAYS)
        to_encode == Update(data, [exp |-> expire, type |-> "access"])
    IN  JwtEncode(to_encode, SECRET_KEY, ALGORITHM)

\* create_access_token(data, expires_delta) called at instant t
create_access_token(data, expires_delta, t) ==
    LET expire == IF expires_delta # {} /\ expires_delta # {0}
                  THEN t + (CHOOSE d \in expires_delta : TRUE)
                  ELSE t + Minutes(ACCESS_TOKEN_EXPIRE_MINUTES)
        to_encode == Update(data, [exp |-> expire, type |-> "access"])
    IN  JwtEncode(to_encode, SECRET_KEY, ALGORITHM)

\* create_refresh_token(data) called at instant t
create_refresh_token(data, t) ==
    LET expire == t + Days(REFRESH_TOKEN_EXPIRE_DAYS)
        to_encode == Update(data, [exp |-> expire, type |-> "refresh"])
    IN  JwtEncode(to_encode, SECRET_KEY, ALGORITHM)

\* what a call ends with: a value, an HTTPException, or another exception
\* (detail is the message, as the sequence of the parts an f-string joins;
\* an exception no handler catches is answered 500 by the framework)
Ok(v) == [kind |-> "ok", status |-> 200, detail |-> <<>>, value |-> v]
Http(s, d) == [kind |-> "http", status |-> s, detail |-> d]
Raise(e) == [kind |-> "exception", status |-> 500, detail |-> <<e>>]

TokenExpired == Http(401, <<"Token expiré">>)
TokenInvalid == Http(401, <<"Token invalide">>)

\* the body of decode_token after jwt.decode: payload.get("sub"),
\* payload.get("email"), TokenData(user_id=UUID(user_id), email=email)
TokenData(payload) ==
    LET user_id == Get(payload, "sub")
        email == Get(payload, "email")
    IN  IF user_id = {} THEN TokenInvalid
        ELSE LET sub == CHOOSE s \in user_id : TRUE
             IN  IF ParsedSub[sub] = {} THEN Raise("ValueError")
                 ELSE Ok([user_id |-> ParsedSubStr[sub], email |-> email])

\* a decode_token whose handler of InvalidTokenError comes first and so
\* takes ExpiredSignatureError, its subclass, too
decode_token_InvalidFirst(token, t) ==
    LET d == JwtDecode(token, SECRET_KEY, {ALGORITHM}, t)
    IN  IF d.err # "" THEN TokenInvalid ELSE TokenData(d.payload)

\* a decode_token that does not verify the signature
decode_token_Unverified(token, t) ==
    LET d == JwtDecode(token, token.key, {token.alg}, t)
    IN  IF d.err = "ExpiredSignatureError" THEN TokenExpired
        ELSE IF d.err = "InvalidTokenError" THEN TokenInvalid
        ELSE TokenData(d.payload)

\* a decode_token that looks at exp before it verifies the signature
decode_token_ExpiryFirst(token, t) ==
    LET d == JwtDecode(token, SECRET_KEY, {ALGORITHM}, t)
    IN  IF "exp" \in DOMAIN token.payload /\ token.payload.exp * TicksPerSecond <= t
        THEN TokenExpired
        ELSE IF d.err = "InvalidTokenError" THEN TokenInvalid
        ELSE TokenData(d.payload)

\* decode_token(token) called at instant t
decode_token(token, t) ==
    LET d == JwtDecode(token, SECRET_KEY, {ALGORITHM}, t)
    IN  IF d.err = "ExpiredSignatureError" THEN TokenExpired
        ELSE IF d.err = "InvalidTokenError" THEN TokenInvalid
        ELSE TokenData(d.payload)


---------------------------------------------------------------------------
(* The token service on its own: tokens are issued, forged and decoded    *)
(* while the clock advances.                                               *)

\* tokens are issued during the first IssueUntil ticks
IssueUntil == 2

\* the data dicts handed to create_*_token: sub and email, or one of them
TokData ==
    {[sub |-> s, email |-> e] : s \in Subjects, e \in Emails}
        \cup {[email |-> e] : e \in Emails}
        \cup {[sub |-> SubA]}

\* an expiry (whole seconds) in the future of every instant the model reaches
FutureExp == (Days(REFRESH_TOKEN_EXPIRE_DAYS) \div TicksPerSecond) * 2

\* tokens the service did not issue: another key or another algorithm,
\* with an expiry in the past (second 0), in the future, or none
ForgedTokens ==
    LET claims == [sub |-> SubA, email |-> "a@x.com", type |-> "access"]
        payloads == {claims} \cup {Update(claims, [exp |-> x]) : x \in {0, FutureExp}}
    IN  {[payload |-> p, key |-> k, alg |-> a] :
            p \in payloads,
            k \in Keys,
            a \in Algorithms} \ {t \in [payload : payloads, key : Keys, alg : Algorithms] :
                                    (t.key = SECRET_KEY) <=> (t.alg = ALGORITHM)}

\* the expiry of a token as an instant, {} when it has none
ExpTick(token) ==
    IF "exp" \in DOMAIN token.payload
    THEN {token.payload.exp * TicksPerSecond}
    ELSE {}

\* instants of interest: the start, the issue of the token under test, and
\* the expiry of every token there is
Anchors ==
    {0} \cup {h.iat : h \in held}
        \cup UNION {ExpTick(t) : t \in tokens \cup {h.token : h \in held}}

\* the remote addresses requests come from (get_remote_address)
Callers == {"10.0.0.1", "10.0.0.2"}

\* nothing counted and nothing let in yet in the current window
LimiterStart ==
    [storage |-> [c \in Callers |-> 0], admitted |-> [c \in Callers |-> 0]]

\* the user_preferences table before get_user_preferences has created it
NoTable == [exists |-> FALSE, rows |-> [u \in UserIds |-> {}]]

InitCommon ==
    /\ limiter = LimiterStart
    /\ user_preferences = NoTable
    /\ transactions = {}
    /\ holdings = {}
    /\ now = 0
    /\ held = {}
    /\ res = {}
    /\ users = [u \in UserIds |-> {}]
    /\ usedIds = {}
    /\ portfolios = {}
    /\ tokens = {}

TokInit ==
    /\ InitCommon
    /\ reqs = <<>>

TokFrame == UNCHANGED <<users, usedIds, portfolios, tokens, reqs>>

TokIssueAccess ==
    /\ now <= IssueUntil
    /\ \E data \in TokData, delta \in ExpiresDeltas :
          held' = {[token |-> create_access_token(data, delta, now),
                    iat |-> now, data |-> data, delta |-> delta,
                    by |-> "create_access_token"]}
    /\ res' = {}
    /\ UNCHANGED <<now, limiter, user_preferences, transactions, holdings>>
    /\ TokFrame

TokIssueRefresh ==
    /\ now <= IssueUntil
    /\ \E data \in TokData :
          held' = {[token |-> create_refresh_token(data, now),
                    iat |-> now, data |-> data, delta |-> {},
                    by |-> "create_refresh_token"]}
    /\ res' = {}
    /\ UNCHANGED <<now, limiter, user_preferences, transactions, holdings>>
    /\ TokFrame

TokForge ==
    /\ now <= IssueUntil
    /\ \E t \in ForgedTokens :
          held' = {[token |-> t, iat |-> now, data |-> t.payload, delta |-> {},
                    by |-> "forged"]}
    /\ res' = {}
    /\ UNCHANGED <<now, limiter, user_preferences, transactions, holdings>>
    /\ TokFrame

TokDecode ==
    /\ \E h \in held :
          res' = {[token |-> h.token, iat |-> h.iat, data |-> h.data, by |-> h.by,
                   at |-> now, out |-> decode_token(h.token, now)]}
    /\ UNCHANGED <<now, held, limiter, user_preferences, transactions, holdings>>
    /\ TokFrame

\* the clock advances by one tick, up to one tick after an instant of interest
Tick ==
    /\ \E a \in Anchors : a - 1 <= now + 1 /\ now + 1 <= a + 1
    /\ now' = now + 1
    /\ UNCHANGED <<held, limiter, user_preferences, transactions, holdings, res, users, usedIds, portfolios, tokens, reqs>>

\* the clock advances to one tick before the next expiry of a token
Jump ==
    /\ \E x \in Anchors :
          /\ x - 1 > now
          /\ \A y \in Anchors : y - 1 > now => x <= y
          /\ now' = x - 1
    /\ UNCHANGED <<held, limiter, user_preferences, transactions, holdings, res, users, usedIds, portfolios, tokens, reqs>>

TokNext ==
    \/ TokIssueAccess
    \/ TokIssueRefresh
    \/ TokForge
    \/ TokDecode
    \/ Tick
    \/ Jump

SpecToken == TokInit /\ [][TokNext]_vars

\* decode calls on tokens the service issued
ServiceDecodes == {r \in res : r.by # "forged"}

(* C1: a token issued by create_access_token or create_refresh_token is    *)
(* rejected by decode_token with 401 "Token expiré" exactly when the       *)
(* clock has reached its embedded expiry (now >= exp), whatever else the   *)
(* token carries; and a token once rejected as expired is rejected as      *)
(* expired by every later call.                                            *)
C1_ExpiredExactlyFromExpiry ==
    \A r \in ServiceDecodes :
        (r.at >= r.token.payload.exp * TicksPerSecond) <=> (r.out = TokenExpired)

C1_OnceExpiredAlwaysExpired ==
    \A r \in res : \A q \in res' :
        (q.token = r.token /\ r.out = TokenExpired) => q.out = TokenExpired

C1_Theorem == [](C1_ExpiredExactlyFromExpiry) /\ [][C1_OnceExpiredAlwaysExpired]_vars

\* a service-issued token decoded at the very instant of its expiry
C1_Witness ==
    \E r \in ServiceDecodes :
        /\ r.at = r.token.payload.exp * TicksPerSecond
        /\ r.out = TokenExpired

(* C2: a token not signed with SECRET_KEY under ALGORITHM is rejected by   *)
(* decode_token with 401 "Token invalide", whether its exp is in the       *)
(* future, in the past or missing; none of its claims is returned.         *)
C2_Theorem ==
    \A r \in res :
        (r.token.key # SECRET_KEY \/ r.token.alg # ALGORITHM) => r.out = TokenInvalid

\* a token signed with another key and not yet expired has been decoded
C2_Witness ==
    \E r \in res :
        /\ r.token.key # SECRET_KEY
        /\ "exp" \in DOMAIN r.token.payload
        /\ r.token.payload.exp * TicksPerSecond > r.at
        /\ r.out = TokenInvalid

(* C3: decode_token applied at once to the token create_access_token or    *)
(* create_refresh_token made from {sub, email} succeeds and returns the    *)
(* same subject and email, for every subject and email.                    *)
C3_Claim ==
    \A r \in ServiceDecodes :
        (r.at = r.iat /\ DOMAIN r.data = {"sub", "email"})
            => /\ r.out.kind = "ok"
               /\ r.out.value.user_id = r.data.sub
               /\ r.out.value.email = {r.data.email}

---------------------------------------------------------------------------
(* The store, and what the endpoints are called with *)

Passwords == {"secret123", "wrong"}

\* bcrypt works on the first 72 bytes of a password
BcryptMaxBytes == 72

\* passwords of 72 bytes and more: 72 times "x", then "a", "b" or nothing
Long == "xxxxxxxxxxxxxxxxxxxxxxxxxxxxxxxxxxxxxxxxxxxxxxxxxxxxxxxxxxxxxxxxxxxxxxxx"
LongA == "xxxxxxxxxxxxxxxxxxxxxxxxxxxxxxxxxxxxxxxxxxxxxxxxxxxxxxxxxxxxxxxxxxxxxxxxa"
LongB == "xxxxxxxxxxxxxxxxxxxxxxxxxxxxxxxxxxxxxxxxxxxxxxxxxxxxxxxxxxxxxxxxxxxxxxxxb"

\* the passwords handed to the hashing functions
AnyPasswords == Passwords \cup {"Secret123", Long, LongA, LongB}

\* password.encode("utf-8"): the bytes of a password of the model
Bytes(password) ==
    CASE password = "secret123" -> <<"s", "e", "c", "r", "e", "t", "1", "2", "3">>
      [] password = "Secret123" -> <<"S", "e", "c", "r", "e", "t", "1", "2", "3">>
      [] password = "wrong" -> <<"w", "r", "o", "n", "g">>
      [] password = Long -> Rep("x", BcryptMaxBytes)
      [] password = LongA -> Rep("x", BcryptMaxBytes) \o <<"a">>
      [] password = LongB -> Rep("x", BcryptMaxBytes) \o <<"b">>

\* the bytes bcrypt reads
Truncated(secret) ==
    IF Len(secret) > BcryptMaxBytes THEN SubSeq(secret, 1, BcryptMaxBytes) ELSE secret

(* passlib's bcrypt.  The digest is kept as the bytes bcrypt read to make  *)
(* it: two digests are of the same password exactly when these are equal   *)
(* (the salt, which verify reads back from the digest, is left out).       *)
get_password_hash(password) ==
    [scheme |-> "bcrypt", secret |-> Truncated(Bytes(password))]
verify_password(plain_password, hashed_password) ==
    hashed_password = get_password_hash(plain_password)

\* the bcrypt library under passlib: up to 4.x it cuts a password at 72
\* bytes, from 5.0 it raises ValueError for a longer one
Backends == {"truncates", "raises"}

\* pwd_context.hash or pwd_context.verify is given more than bcrypt takes
TooLong(password) == Len(Bytes(password)) > BcryptMaxBytes

\* the bodies of POST /register of the model (UserRegister)
RegisterInputs ==
    {[email |-> "a@x.com", password |-> "secret123", user_type |-> "retail"],
     [email |-> "b@x.com", password |-> "secret123", user_type |-> "admin"]}

\* the forms of POST /login of the model (OAuth2PasswordRequestForm)
LoginInputs == [username : Emails, password : Passwords]

\* how a protected endpoint is guarded: {} for Depends(get_current_user),
\* {allowed_types} for Depends(require_user_type(allowed_types))
Guards == {{}, {{"admin"}}}

\* the row of user u
Row(u) == CHOOSE r \in users[u] : TRUE

\* SELECT ... FROM users WHERE email = %s: the ids of the matching rows
UsersByEmail(email) == {u \in UserIds : \E r \in users[u] : r.email = email}

\* the same SELECT without "AND is_active = true"
ActiveUserById_AnyRow(id) == {u \in UserIds : u = id /\ users[u] # {}}

\* SELECT ... FROM users WHERE id = %s AND is_active = true
ActiveUserById(id) == {u \in UserIds : u = id /\ \E r \in users[u] : r.is_active}

\* the id the store gives a new row: the first id of the model not in use
FreeIds == UserIds \ usedIds
NewUserId == IF SubA \in FreeIds THEN SubA ELSE IF SubB \in FreeIds THEN SubB ELSE ""

\* the User object built from a row
User(u) ==
    [id |-> u, email |-> Row(u).email, user_type |-> Row(u).user_type,
     is_active |-> Row(u).is_active]

credentials_exception == Http(401, <<"Impossible de valider les credentials">>)
NotAuthenticated == Http(401, <<"Not authenticated">>)

(* A request: the endpoint (op), where it stands (pc), its bearer or        *)
(* refresh token and its other arguments, the connections it holds open,   *)
(* the locals token_data (td) and user, the result on its way out while    *)
(* "finally" runs (pending) and the answer (out).  For the properties it   *)
(* also notes the instant its token was checked (at), the rows the store   *)
(* held for the account it names when it looked or, for refresh, when it   *)
(* ran (seen), the SELECTs get_current_user sent (lookups), the statements *)
(* the endpoint's own body sent (biz) and whether the endpoint's function  *)
(* was entered (entered).                                                  *)
IdleReq ==
    [op |-> "idle", pc |-> "idle", token |-> {}, args |-> <<>>, conns |-> 0,
     td |-> {}, user |-> {}, pending |-> {}, out |-> {},
     at |-> {}, seen |-> {}, lookups |-> 0, biz |-> 0, entered |-> FALSE]

\* a request as it arrives: the first step of each endpoint
FirstPc(op) ==
    CASE op = "portfolios" -> "decode"
      [] op = "login" -> "l_connect"
      [] op = "register" -> "r_connect"
      [] op = "refresh" -> "refresh"

NewReq(op, token, args) ==
    [IdleReq EXCEPT !.op = op, !.pc = FirstPc(op), !.token = token, !.args = args]

Slots == DOMAIN reqs

\* the request of slot s ends with result o
Finish(r, o) == [r EXCEPT !.pc = "done", !.out = {o}, !.pending = {}]



---------------------------------------------------------------------------
(* utils/security.py: get_current_user and require_user_type, step by step *)

Others(s) == UNCHANGED <<now, held, limiter, user_preferences, transactions, holdings, res, users, usedIds, portfolios, tokens>>

\* a get_current_user that keeps the token to decode in a variable of the
\* module, which every request being served writes
GcuDecode_SharedToken(s) ==
    /\ reqs[s].pc = "decode"
    /\ LET r == reqs[s]
           shared == UNION {reqs[k].token : k \in Slots}
           d == decode_token(CHOOSE t \in shared : TRUE, now)
       IN  reqs' = [reqs EXCEPT ![s] =
               IF r.token = {} THEN Finish(r, NotAuthenticated)
               ELSE IF d.kind = "ok"
               THEN [r EXCEPT !.pc = "gcu_connect", !.td = {d.value}, !.at = {now}]
               ELSE IF d.kind = "http" THEN Finish([r EXCEPT !.at = {now}], d)
               ELSE Finish([r EXCEPT !.at = {now}], credentials_exception)]
    /\ Others(s)

\* a get_current_user without "except HTTPException: raise": the errors of
\* decode_token are caught with the rest and answered credentials_exception
GcuDecode_CatchAll(s) ==
    /\ reqs[s].pc = "decode"
    /\ LET r == reqs[s]
           d == decode_token(CHOOSE t \in r.token : TRUE, now)
       IN  reqs' = [reqs EXCEPT ![s] =
               IF r.token = {} THEN Finish(r, NotAuthenticated)
               ELSE IF d.kind = "ok"
               THEN [r EXCEPT !.pc = "gcu_connect", !.td = {d.value}, !.at = {now}]
               ELSE Finish([r EXCEPT !.at = {now}], credentials_exception)]
    /\ Others(s)

\* oauth2_scheme, then decode_token(token)
GcuDecode(s) ==
    /\ reqs[s].pc = "decode"
    /\ LET r == reqs[s]
           d == decode_token(CHOOSE t \in r.token : TRUE, now)
       IN  reqs' = [reqs EXCEPT ![s] =
               IF r.token = {} THEN Finish(r, NotAuthenticated)
               ELSE IF d.kind = "ok"
               THEN [r EXCEPT !.pc = "gcu_connect", !.td = {d.value}, !.at = {now}]
               ELSE IF d.kind = "http" THEN Finish([r EXCEPT !.at = {now}], d)
               ELSE Finish([r EXCEPT !.at = {now}], credentials_exception)]
    /\ Others(s)

\* psycopg2.connect(...): a connection, or an exception (except Exception)
GcuConnect(s) ==
    /\ reqs[s].pc = "gcu_connect"
    /\ \E connected \in BOOLEAN :
          reqs' = [reqs EXCEPT ![s] =
              IF connected
              THEN [@ EXCEPT !.pc = "gcu_query", !.conns = @ + 1]
              ELSE Finish(@, credentials_exception)]
    /\ Others(s)

\* a get_current_user that notes in the user's row when it last resolved it
GcuQuery_Recording(s) ==
    /\ reqs[s].pc = "gcu_query"
    /\ \E executed \in BOOLEAN :
          LET r == reqs[s]
              td == CHOOSE x \in r.td : TRUE
              user_data == ActiveUserById(td.user_id)
          IN  IF ~executed
              THEN /\ reqs' = [reqs EXCEPT ![s] =
                          [r EXCEPT !.pc = "gcu_close", !.lookups = @ + 1,
                                    !.pending = {credentials_exception}]]
                   /\ UNCHANGED users
              ELSE IF user_data = {}
              THEN /\ reqs' = [reqs EXCEPT ![s] =
                          [r EXCEPT !.pc = "gcu_close", !.lookups = @ + 1,
                                    !.seen = {users[td.user_id]},
                                    !.pending = {credentials_exception}]]
                   /\ UNCHANGED users
              ELSE /\ reqs' = [reqs EXCEPT ![s] =
                          [r EXCEPT !.pc = "gcu_close", !.lookups = @ + 1,
                                    !.seen = {users[td.user_id]},
                                    !.pending = {Ok(User(CHOOSE u \in user_data : TRUE))}]]
                   /\ users' = [users EXCEPT ![td.user_id] =
                                   {[Row(td.user_id) EXCEPT !.last_login_at = {now + 1}]}]
    /\ UNCHANGED <<now, held, limiter, user_preferences, transactions, holdings, res, usedIds, portfolios, tokens>>

\* the SELECT on users; no row, or an exception, end in credentials_exception
GcuQuery(s) ==
    /\ reqs[s].pc = "gcu_query"
    /\ \E executed \in BOOLEAN :
          LET r == reqs[s]
              td == CHOOSE x \in r.td : TRUE
              user_data == ActiveUserById(td.user_id)
          IN  reqs' = [reqs EXCEPT ![s] =
                  IF ~executed
                  THEN [r EXCEPT !.pc = "gcu_close", !.lookups = @ + 1,
                                 !.pending = {credentials_exception}]
                  ELSE IF user_data = {}
                  THEN [r EXCEPT !.pc = "gcu_close", !.lookups = @ + 1,
                                 !.seen = {users[td.user_id]},
                                 !.pending = {credentials_exception}]
                  ELSE [r EXCEPT !.pc = "gcu_close", !.lookups = @ + 1,
                                 !.seen = {users[td.user_id]},
                                 !.pending = {Ok(User(CHOOSE u \in user_data : TRUE))}]]
    /\ Others(s)

\* a get_current_user that connects and looks again after a failed lookup
GcuClose_LookAgain(s) ==
    /\ reqs[s].pc = "gcu_close"
    /\ LET r == reqs[s]
           p == CHOOSE x \in r.pending : TRUE
       IN  reqs' = [reqs EXCEPT ![s] =
               IF p.kind = "ok"
               THEN [r EXCEPT !.pc = "authorize", !.conns = @ - 1,
                              !.user = {p.value}, !.pending = {}]
               ELSE IF r.lookups < 2
               THEN [r EXCEPT !.pc = "gcu_connect", !.conns = @ - 1, !.pending = {}]
               ELSE Finish([r EXCEPT !.conns = @ - 1], p)]
    /\ Others(s)

\* a get_current_user that closes the connection after the return only
GcuClose_OnReturnOnly(s) ==
    /\ reqs[s].pc = "gcu_close"
    /\ LET r == reqs[s]
           p == CHOOSE x \in r.pending : TRUE
       IN  reqs' = [reqs EXCEPT ![s] =
               IF p.kind = "ok"
               THEN [r EXCEPT !.pc = "authorize", !.conns = @ - 1,
                              !.user = {p.value}, !.pending = {}]
               ELSE Finish(r, p)]
    /\ Others(s)

\* finally: conn.close(); the User is returned or the exception goes on
GcuClose(s) ==
    /\ reqs[s].pc = "gcu_close"
    /\ LET r == reqs[s]
           p == CHOOSE x \in r.pending : TRUE
       IN  reqs' = [reqs EXCEPT ![s] =
               IF p.kind = "ok"
               THEN [r EXCEPT !.pc = "authorize", !.conns = @ - 1,
                              !.user = {p.value}, !.pending = {}]
               ELSE Finish([r EXCEPT !.conns = @ - 1], p)]
    /\ Others(s)

Forbidden == Http(403, <<"Accès interdit pour ce type d'utilisateur">>)

\* a check_user_type for which a "*" in the list allows every user type
check_user_type_Wildcard(user, allowed_types) ==
    IF user.user_type \notin allowed_types /\ "*" \notin allowed_types
    THEN Forbidden ELSE Ok(TRUE)

\* a check_user_type that lets every user type through
check_user_type_AllowAll(user, allowed_types) == Ok(TRUE)

\* check_user_type(user, allowed_types)
check_user_type(user, allowed_types) ==
    IF user.user_type \notin allowed_types THEN Forbidden ELSE Ok(TRUE)

\* user_type_checker(current_user) of require_user_type(allowed_types)
user_type_checker(current_user, allowed_types) ==
    LET c == check_user_type(current_user, allowed_types)
    IN  IF c.kind = "ok" THEN Ok(current_user) ELSE c

\* user_type_checker of require_user_type, when the endpoint is guarded by it
Authorize(s) ==
    /\ reqs[s].pc = "authorize"
    /\ LET r == reqs[s]
           user == CHOOSE x \in r.user : TRUE
       IN  reqs' = [reqs EXCEPT ![s] =
               IF r.args.guard = {} THEN [r EXCEPT !.pc = "h_connect"]
               ELSE LET c == user_type_checker(user, CHOOSE a \in r.args.guard : TRUE)
                    IN  IF c.kind = "ok" THEN [r EXCEPT !.pc = "h_connect"]
                        ELSE Finish(r, c)]
    /\ Others(s)

---------------------------------------------------------------------------
(* api/routers/portfolios.py: get_my_portfolios *)

\* psycopg2.connect(...), outside the try: an exception goes to the framework
HConnect(s) ==
    /\ reqs[s].pc = "h_connect"
    /\ \E connected \in BOOLEAN :
          reqs' = [reqs EXCEPT ![s] =
              IF connected
              THEN [@ EXCEPT !.pc = "h_body", !.conns = @ + 1, !.entered = TRUE]
              ELSE Finish([@ EXCEPT !.entered = TRUE], Raise("OperationalError"))]
    /\ Others(s)

\* SELECT ... FROM portfolios WHERE user_id = %s
HBody(s) ==
    /\ reqs[s].pc = "h_body"
    /\ \E executed \in BOOLEAN :
          LET r == reqs[s]
              user == CHOOSE x \in r.user : TRUE
          IN  reqs' = [reqs EXCEPT ![s] =
                  IF executed
                  THEN [r EXCEPT !.pc = "h_close", !.biz = @ + 1,
                                 !.pending = {Ok({p \in portfolios : p.user_id = user.id})}]
                  ELSE [r EXCEPT !.pc = "h_close", !.biz = @ + 1,
                                 !.pending = {Raise("psycopg2.Error")}]]
    /\ Others(s)

\* finally: conn.close()
HClose(s) ==
    /\ reqs[s].pc = "h_close"
    /\ reqs' = [reqs EXCEPT ![s] =
           Finish([@ EXCEPT !.conns = @ - 1], CHOOSE x \in @.pending : TRUE)]
    /\ Others(s)


---------------------------------------------------------------------------
(* api/routers/auth.py: login *)

InvalidCredentials == Http(401, <<"Email ou mot de passe incorrect">>)
AccountDisabled == Http(403, <<"Compte désactivé">>)
LoginError(e) == Http(500, <<"Erreur lors de la connexion: ", e>>)

\* psycopg2.connect(...), outside the try
LConnect(s) ==
    /\ reqs[s].pc = "l_connect"
    /\ \E connected \in BOOLEAN :
          reqs' = [reqs EXCEPT ![s] =
              IF connected
              THEN [@ EXCEPT !.pc = "l_body", !.conns = @ + 1]
              ELSE Finish(@, Raise("OperationalError"))]
    /\ Others(s)

\* the Token login answers with for the user row (id, email), at instant t
LoginTokens(user_id, email, t) ==
    [access_token |-> create_access_token([sub |-> user_id, email |-> email], {}, t),
     refresh_token |-> create_refresh_token([sub |-> user_id, email |-> email], t),
     token_type |-> "bearer"]

\* the checks of login without the one on the active flag
LoginChecks_NoActiveCheck(user, password) ==
    IF user = {} THEN {InvalidCredentials}
    ELSE LET row == CHOOSE x \in user : TRUE
         IN  IF ~verify_password(password, row.password_hash) THEN {InvalidCredentials}
             ELSE {}

\* the checks of login with the active flag looked at before the password
LoginChecks_ActiveFirst(user, password) ==
    IF user = {} THEN {InvalidCredentials}
    ELSE LET row == CHOOSE x \in user : TRUE
         IN  IF ~row.is_active THEN {AccountDisabled}
             ELSE IF ~verify_password(password, row.password_hash) THEN {InvalidCredentials}
             ELSE {}

(* The checks of login on the fetched row (a set: {} is None) and the     *)
(* password given: {} when they pass, or the HTTPException raised.         *)
LoginChecks(user, password) ==
    IF user = {} THEN {InvalidCredentials}
    ELSE LET row == CHOOSE x \in user : TRUE
         IN  IF ~verify_password(password, row.password_hash) THEN {InvalidCredentials}
             ELSE IF ~row.is_active THEN {AccountDisabled}
             ELSE {}

(* The body of the try: the SELECT by email, the password and active      *)
(* checks, the UPDATE of last_login_at with its commit, the two tokens.    *)
(* failing names the statement psycopg2 raises at, "" for none.            *)
LBody(s) ==
    /\ reqs[s].pc = "l_body"
    /\ \E failing \in {"", "select", "update"} :
       \E u \in UsersByEmail(reqs[s].args.username) \cup {""} :
          LET r == reqs[s]
              user == IF u = "" THEN {} ELSE {Row(u)}
              checks == LoginChecks(user, r.args.password)
              to(o) == [reqs EXCEPT ![s] =
                           [r EXCEPT !.pc = "l_close", !.pending = {o},
                                     !.seen = IF failing = "select" THEN {} ELSE {user}]]
          IN  /\ (u = "") <=> (UsersByEmail(r.args.username) = {} \/ failing = "select")
              /\ IF failing = "select"
                 THEN /\ reqs' = to(LoginError("psycopg2.Error"))
                      /\ UNCHANGED users
                 ELSE IF checks # {}
                 THEN /\ reqs' = to(CHOOSE x \in checks : TRUE)
                      /\ UNCHANGED users
                 ELSE IF failing = "update"
                 THEN /\ reqs' = to(LoginError("psycopg2.Error"))
                      /\ UNCHANGED users
                 ELSE /\ reqs' = to(Ok(LoginTokens(u, Row(u).email, now)))
                      /\ users' = [users EXCEPT ![u] = {[Row(u) EXCEPT !.last_login_at = {now}]}]
    /\ UNCHANGED <<now, held, limiter, user_preferences, transactions, holdings, res, usedIds, portfolios, tokens>>

\* finally: conn.close()
LClose(s) ==
    /\ reqs[s].pc = "l_close"
    /\ reqs' = [reqs EXCEPT ![s] =
           Finish([@ EXCEPT !.conns = @ - 1], CHOOSE x \in @.pending : TRUE)]
    /\ Others(s)

---------------------------------------------------------------------------
(* api/routers/auth.py: refresh_token *)

RefreshInvalid == Http(401, <<"Refresh token invalide">>)

\* the data dict of the new access token: sub and, when the token has one, email
RefreshData(td) ==
    IF td.email = {} THEN [sub |-> td.user_id]
    ELSE [sub |-> td.user_id, email |-> CHOOSE e \in td.email : TRUE]

\* a refresh_token that looks the account up and wants it active
refresh_token_ActiveOnly(token, t) ==
    LET d == decode_token(token, t)
    IN  IF d.kind = "ok" /\ ActiveUserById(d.value.user_id) # {}
        THEN Ok([access_token |-> create_access_token(RefreshData(d.value), {}, t),
                 refresh_token |-> token,
                 token_type |-> "bearer"])
        ELSE RefreshInvalid

\* a refresh_token that answers a new refresh token with the access token
refresh_token_Rotating(token, t) ==
    LET d == decode_token(token, t)
    IN  IF d.kind = "ok"
        THEN Ok([access_token |-> create_access_token(RefreshData(d.value), {}, t),
                 refresh_token |-> create_refresh_token(RefreshData(d.value), t),
                 token_type |-> "bearer"])
        ELSE RefreshInvalid

\* refresh_token(refresh_token) called at instant t
refresh_token(token, t) ==
    LET d == decode_token(token, t)
    IN  IF d.kind = "ok"
        THEN Ok([access_token |-> create_access_token(RefreshData(d.value), {}, t),
                 refresh_token |-> token,
                 token_type |-> "bearer"])
        ELSE RefreshInvalid

\* the rows the store holds for the subject a token names
RowsOfSubject(token) ==
    IF "sub" \in DOMAIN token.payload /\ token.payload.sub \in UserIds
    THEN users[token.payload.sub]
    ELSE {}

Refresh(s) ==
    /\ reqs[s].pc = "refresh"
    /\ LET token == CHOOSE t \in reqs[s].token : TRUE
       IN  reqs' = [reqs EXCEPT ![s] =
               Finish([@ EXCEPT !.at = {now}, !.seen = {RowsOfSubject(token)}],
                      refresh_token(token, now))]
    /\ Others(s)

---------------------------------------------------------------------------
(* api/routers/auth.py: register *)

\* initial_capital and cash_balance of the default portfolio
DefaultCapital == 10000000

RegisterError(e) == Http(500, <<"Erreur lors de l'inscription: ", e>>)

\* psycopg2.connect(...), outside the try
RConnect(s) ==
    /\ reqs[s].pc = "r_connect"
    /\ \E connected \in BOOLEAN :
          reqs' = [reqs EXCEPT ![s] =
              IF connected
              THEN [@ EXCEPT !.pc = "r_select", !.conns = @ + 1]
              ELSE Finish(@, Raise("OperationalError"))]
    /\ Others(s)

(* SELECT id FROM users WHERE email = %s.  The HTTPException(400) raised   *)
(* for an email in use is caught by "except Exception" like any other:     *)
(* rollback, then 500 with str(e) in the detail.                           *)
RSelect(s) ==
    /\ reqs[s].pc = "r_select"
    /\ \E executed \in BOOLEAN :
          LET r == reqs[s]
              found == {Row(u) : u \in UsersByEmail(r.args.email)}
              to(o) == [reqs EXCEPT ![s] = [r EXCEPT !.pc = "r_close", !.pending = {o}]]
          IN  reqs' = IF ~executed THEN to(RegisterError("psycopg2.Error"))
                      ELSE IF found # {}
                      THEN [reqs EXCEPT ![s] =
                               [r EXCEPT !.pc = "r_close", !.seen = {found},
                                         !.pending = {RegisterError("400: Cet email est déjà utilisé")}]]
                      ELSE [reqs EXCEPT ![s] =
                               [r EXCEPT !.pc = "r_insert_user", !.seen = {found}]]
    /\ Others(s)

\* get_password_hash, INSERT INTO users ... RETURNING, conn.commit()
RInsertUser(s) ==
    /\ reqs[s].pc = "r_insert_user"
    /\ LET r == reqs[s]
       IN  \/ /\ reqs' = [reqs EXCEPT ![s] =
                     [r EXCEPT !.pc = "r_close",
                               !.pending = {RegisterError("psycopg2.Error")}]]
              /\ UNCHANGED <<users, usedIds>>
           \/ \E u \in UserIds :
                 /\ u = NewUserId
                 /\ usedIds' = usedIds \cup {u}
                 /\ users' = [users EXCEPT ![u] =
                        {[email |-> r.args.email,
                          password_hash |-> get_password_hash(r.args.password),
                          user_type |-> r.args.user_type,
                          is_active |-> TRUE,
                          last_login_at |-> {}]}]
                 /\ reqs' = [reqs EXCEPT ![s] =
                        [r EXCEPT !.pc = "r_insert_portfolio",
                                  !.user = {[id |-> u, email |-> r.args.email,
                                             user_type |-> r.args.user_type,
                                             is_active |-> TRUE]}]]
    /\ UNCHANGED <<now, held, limiter, user_preferences, transactions, holdings, res, portfolios, tokens>>

\* INSERT INTO portfolios ..., conn.commit(), the UserResponse (201)
RInsertPortfolio(s) ==
    /\ reqs[s].pc = "r_insert_portfolio"
    /\ LET r == reqs[s]
           user == CHOOSE x \in r.user : TRUE
       IN  \/ /\ reqs' = [reqs EXCEPT ![s] =
                     [r EXCEPT !.pc = "r_close",
                               !.pending = {RegisterError("psycopg2.Error")}]]
              /\ UNCHANGED portfolios
           \/ /\ portfolios' = portfolios \cup
                     {[id |-> Cardinality(portfolios) + 1,
                       user_id |-> user.id,
                       name |-> "Portefeuille Virtuel",
                       type |-> "virtual",
                       initial_capital |-> DefaultCapital,
                       cash_balance |-> DefaultCapital]}
              /\ reqs' = [reqs EXCEPT ![s] =
                     [r EXCEPT !.pc = "r_close",
                               !.pending = {[Ok(user) EXCEPT !.status = 201]}]]
    /\ UNCHANGED <<now, held, limiter, user_preferences, transactions, holdings, res, users, usedIds, tokens>>

\* finally: conn.close()
RClose(s) ==
    /\ reqs[s].pc = "r_close"
    /\ reqs' = [reqs EXCEPT ![s] =
           Finish([@ EXCEPT !.conns = @ - 1], CHOOSE x \in @.pending : TRUE)]
    /\ Others(s)


---------------------------------------------------------------------------
(* Requests arrive and are answered; accounts are deactivated *)

\* what a client can send as a bearer or refresh token: one it holds, or one
\* signed with another key, expired or not
Presentable ==
    tokens \cup {t \in ForgedTokens : t.key # SECRET_KEY /\ t.alg = ALGORITHM
                                        /\ "exp" \in DOMAIN t.payload}

\* a request arrives in the first free slot
Free(s) == reqs[s].op = "idle" /\ \A k \in Slots : k < s => reqs[k].op # "idle"

StartPortfolios(s) ==
    /\ Free(s)
    /\ \E token \in {{}} \cup {{t} : t \in Presentable}, guard \in Guards :
          reqs' = [reqs EXCEPT ![s] = NewReq("portfolios", token, [guard |-> guard])]
    /\ Others(s)

StartLogin(s) ==
    /\ Free(s)
    /\ \E form_data \in LoginInputs :
          reqs' = [reqs EXCEPT ![s] = NewReq("login", {}, form_data)]
    /\ Others(s)

StartRegister(s) ==
    /\ Free(s)
    /\ \E user_data \in RegisterInputs :
          reqs' = [reqs EXCEPT ![s] = NewReq("register", {}, user_data)]
    /\ Others(s)

StartRefresh(s) ==
    /\ Free(s)
    /\ \E token \in Presentable :
          reqs' = [reqs EXCEPT ![s] = NewReq("refresh", {token}, <<>>)]
    /\ Others(s)

\* the tokens of an answer of login or refresh
AnswerTokens(r) ==
    IF r.op \in {"login", "refresh"} /\ \E o \in r.out : o.kind = "ok"
    THEN UNION {{o.value.access_token, o.value.refresh_token} : o \in r.out}
    ELSE {}

\* the answer goes to the client, who holds the tokens of the last answer
\* with tokens it received during the first IssueUntil ticks
Deliver(s) ==
    /\ reqs[s].pc = "done"
    /\ tokens' = IF AnswerTokens(reqs[s]) # {} /\ now <= IssueUntil
                 THEN AnswerTokens(reqs[s])
                 ELSE tokens
    /\ reqs' = [reqs EXCEPT ![s] = IdleReq]
    /\ UNCHANGED <<now, held, limiter, user_preferences, transactions, holdings, res, users, usedIds, portfolios>>

\* an account is deactivated in the store (no endpoint does it)
Deactivate ==
    /\ \E u \in UserIds :
          /\ \E r \in users[u] : r.is_active
          /\ users' = [users EXCEPT ![u] = {[Row(u) EXCEPT !.is_active = FALSE]}]
    /\ UNCHANGED <<now, held, limiter, user_preferences, transactions, holdings, res, usedIds, portfolios, tokens, reqs>>

\* an account is removed from the store, its portfolios with it (no endpoint
\* does it)
Remove ==
    /\ \E u \in UserIds :
          /\ users[u] # {}
          /\ users' = [users EXCEPT ![u] = {}]
          /\ portfolios' = {p \in portfolios : p.user_id # u}
    /\ UNCHANGED <<now, held, limiter, user_preferences, transactions, holdings, res, usedIds, tokens, reqs>>

\* the clock reaches the expiry of a token
Expire ==
    /\ now + 1 \in Anchors
    /\ now' = now + 1
    /\ UNCHANGED <<held, limiter, user_preferences, transactions, holdings, res, users, usedIds, portfolios, tokens, reqs>>

\* one request at a time
Init ==
    /\ InitCommon
    /\ reqs = [s \in {1} |-> IdleReq]

Next ==
    \/ \E s \in Slots : StartPortfolios(s)
    \/ \E s \in Slots : StartLogin(s)
    \/ \E s \in Slots : StartRegister(s)
    \/ \E s \in Slots : StartRefresh(s)
    \/ \E s \in Slots : GcuDecode(s)
    \/ \E s \in Slots : GcuConnect(s)
    \/ \E s \in Slots : GcuQuery(s)
    \/ \E s \in Slots : GcuClose(s)
    \/ \E s \in Slots : Authorize(s)
    \/ \E s \in Slots : HConnect(s)
    \/ \E s \in Slots : HBody(s)
    \/ \E s \in Slots : HClose(s)
    \/ \E s \in Slots : LConnect(s)
    \/ \E s \in Slots : LBody(s)
    \/ \E s \in Slots : LClose(s)
    \/ \E s \in Slots : Refresh(s)
    \/ \E s \in Slots : RConnect(s)
    \/ \E s \in Slots : RSelect(s)
    \/ \E s \in Slots : RInsertUser(s)
    \/ \E s \in Slots : RInsertPortfolio(s)
    \/ \E s \in Slots : RClose(s)
    \/ \E s \in Slots : Deliver(s)
    \/ Deactivate
    \/ Remove
    \/ Jump
    \/ Expire

Spec == Init /\ [][Next]_vars

\* requests served concurrently, their steps interleaved
MaxReqs == 2

InitConcurrent ==
    /\ InitCommon
    /\ reqs = [s \in 1..MaxReqs |-> IdleReq]

NextConcurrent ==
    \/ \E s \in Slots : StartPortfolios(s)
    \/ \E s \in Slots : StartLogin(s)
    \/ \E s \in Slots : StartRegister(s)
    \/ \E s \in Slots : StartRefresh(s)
    \/ \E s \in Slots : GcuDecode(s)
    \/ \E s \in Slots : GcuConnect(s)
    \/ \E s \in Slots : GcuQuery(s)
    \/ \E s \in Slots : GcuClose(s)
    \/ \E s \in Slots : Authorize(s)
    \/ \E s \in Slots : HConnect(s)
    \/ \E s \in Slots : HBody(s)
    \/ \E s \in Slots : HClose(s)
    \/ \E s \in Slots : LConnect(s)
    \/ \E s \in Slots : LBody(s)
    \/ \E s \in Slots : LClose(s)
    \/ \E s \in Slots : Refresh(s)
    \/ \E s \in Slots : RConnect(s)
    \/ \E s \in Slots : RSelect(s)
    \/ \E s \in Slots : RInsertUser(s)
    \/ \E s \in Slots : RInsertPortfolio(s)
    \/ \E s \in Slots : RClose(s)
    \/ \E s \in Slots : Deliver(s)

SpecConcurrent == InitConcurrent /\ [][NextConcurrent]_vars

---------------------------------------------------------------------------
(* Properties of the requests *)

\* the requests of an endpoint that are being served or wait for delivery
Reqs(op) == {reqs[s] : s \in {k \in Slots : reqs[k].op = op}}

\* the token was not signed with SECRET_KEY under ALGORITHM
BadSignature(token) == token.key # SECRET_KEY \/ token.alg # ALGORITHM

\* the token carries an expiry and instant t has reached it
ExpiredAt(token, t) == \E x \in ExpTick(token) : x <= t

\* the request has resolved a user its endpoint's guard lets through
Authorized(r) ==
    \E u \in r.user : r.args.guard = {} \/ \E a \in r.args.guard : u.user_type \in a

(* C4: get_current_user accepts tokens of type "access" only: a request    *)
(* to a protected endpoint whose bearer token is of type "refresh" never   *)
(* resolves to a user.                                                     *)
C4_Claim ==
    \A r \in Reqs("portfolios") : \A t \in r.token :
        Get(t.payload, "type") = {"refresh"} => r.user = {}

(* C5: the checks of a request to a protected endpoint run in the order    *)
(* signature, expiry, lookup of the user, authorization, and the first     *)
(* that fails decides the answer: a token with a wrong signature is        *)
(* answered "Token invalide" even when it is expired too, an expired one   *)
(* with a right signature "Token expiré", in both cases without a          *)
(* connection or a SELECT on users; nothing is looked up before the token  *)
(* is checked, and the user type is checked only for a user the lookup     *)
(* has found.                                                              *)
C5_Theorem ==
    \A r \in Reqs("portfolios") : \A t \in r.token :
        /\ r.at = {} => r.lookups = 0 /\ r.conns = 0 /\ r.seen = {}
        /\ \A a \in r.at :
              /\ BadSignature(t) => r.out = {TokenInvalid}
              /\ (~BadSignature(t) /\ ExpiredAt(t, a)) => r.out = {TokenExpired}
              /\ (BadSignature(t) \/ ExpiredAt(t, a))
                    => r.lookups = 0 /\ r.conns = 0 /\ r.seen = {} /\ r.user = {}
        /\ (r.pc = "authorize" \/ r.out = {Forbidden})
              => r.lookups = 1 /\ r.user # {} /\ r.conns = 0

\* a token with a wrong signature and an expiry in the past was answered
C5_Witness ==
    \E r \in Reqs("portfolios") : \E t \in r.token : \E a \in r.at :
        /\ r.pc = "done"
        /\ BadSignature(t)
        /\ ExpiredAt(t, a)
        /\ r.out = {TokenInvalid}

(* C6: a request to a protected endpoint that ends without a user the      *)
(* guard lets through (no token, a token invalid or expired, no active     *)
(* row for its subject, or a user type that is not allowed) is answered    *)
(* 401 or 403, and the endpoint's function is never entered for it: it     *)
(* opens no connection and sends no statement of its own.                  *)
C6_Theorem ==
    \A r \in Reqs("portfolios") :
        /\ (r.pc = "done" /\ ~Authorized(r))
              => /\ \A o \in r.out : o.kind = "http" /\ o.status \in {401, 403}
                 /\ r.out # {}
        /\ ~Authorized(r) => ~r.entered /\ r.biz = 0

\* an active user of a type the guard does not allow was answered 403
C6_Witness ==
    \E r \in Reqs("portfolios") :
        /\ r.pc = "done"
        /\ r.user # {}
        /\ ~Authorized(r)
        /\ r.out = {Forbidden}
        /\ r.biz = 0

(* C7: when the SELECT of get_current_user ran while the store held no     *)
(* row for the token's subject, and when it ran while the row was not      *)
(* active, the request ends with the same 401 credentials exception; a     *)
(* user is resolved only from a row that existed and was active.           *)
C7_Theorem ==
    \A r \in Reqs("portfolios") :
        /\ \A rows \in r.seen :
              (rows = {} \/ \E x \in rows : ~x.is_active)
                  => r.user = {} /\ r.pending \cup r.out = {credentials_exception}
        /\ r.user # {}
              => \E rows \in r.seen : \E x \in rows : \E u \in r.user : \E d \in r.td :
                    x.is_active /\ u.id = d.user_id /\ u.email = x.email

\* the subject's account was deactivated and the request answered 401
C7_Witness ==
    \E r \in Reqs("portfolios") : \E rows \in r.seen : \E x \in rows :
        /\ r.pc = "done"
        /\ ~x.is_active
        /\ r.out = {credentials_exception}

\* the subject's row was gone and the request answered 401
C7_WitnessNoRow ==
    \E r \in Reqs("portfolios") :
        /\ r.pc = "done"
        /\ r.seen = {{}}
        /\ r.out = {credentials_exception}

(* C8: POST /refresh with a refresh token the service issued, called       *)
(* before the token's expiry while the account of its subject is not       *)
(* active, succeeds: it answers the same refresh token and a new access    *)
(* token that decode_token accepts for that subject.                       *)
C8_Theorem ==
    \A r \in Reqs("refresh") : \A t \in r.token : \A a \in r.at : \A rows \in r.seen :
        ( /\ ~BadSignature(t)
          /\ Get(t.payload, "type") = {"refresh"}
          /\ ~ExpiredAt(t, a)
          /\ \E x \in rows : ~x.is_active )
            => \E o \in r.out :
                  /\ o.kind = "ok"
                  /\ o.value.refresh_token = t
                  /\ Get(o.value.access_token.payload, "type") = {"access"}
                  /\ decode_token(o.value.access_token, a).kind = "ok"
                  /\ decode_token(o.value.access_token, a).value.user_id = t.payload.sub

\* the refresh ran one tick before the expiry of the refresh token, on a
\* deactivated account
C8_Witness ==
    \E r \in Reqs("refresh") : \E t \in r.token : \E a \in r.at : \E rows \in r.seen :
        /\ ~BadSignature(t)
        /\ Get(t.payload, "type") = {"refresh"}
        /\ ExpTick(t) = {a + 1}
        /\ \E x \in rows : ~x.is_active
        /\ \E o \in r.out : o.kind = "ok"

\* the connections open in the process
OpenConnections == {s \in Slots : reqs[s].conns > 0}

(* C9: a request that has finished, by a return, an HTTPException or any   *)
(* other exception, holds no open connection, whatever the other requests  *)
(* served at the same time do; so no connection is open once every request *)
(* has finished.                                                           *)
C9_Theorem ==
    /\ \A s \in Slots : reqs[s].pc \in {"idle", "done"} => reqs[s].conns = 0
    /\ \A s \in Slots : reqs[s].conns \in {0, 1}
    /\ (\A s \in Slots : reqs[s].pc \in {"idle", "done"}) => OpenConnections = {}

\* a request that connected has ended with an exception while another
\* request holds a connection
C9_Witness ==
    \E s \in Slots : \E k \in Slots :
        /\ reqs[s].pc = "done"
        /\ reqs[s].lookups > 0
        /\ \E o \in reqs[s].out : o.kind # "ok"
        /\ reqs[s].conns = 0
        /\ reqs[k].conns = 1

C10_WitnessNoRow ==
    \E r \in Reqs("login") :
        /\ r.pc = "done"
        /\ r.seen = {{}}
        /\ r.out = {InvalidCredentials}

\* the texts of the exceptions the statements of the model raise (str(e))
ExceptionTexts ==
    {"psycopg2.Error", "OperationalError", "ValueError",
     "400: Cet email est déjà utilisé"}

\* the parts of a detail
Parts(detail) == {detail[i] : i \in DOMAIN detail}

(* C11: no answer of register, login, refresh or get_current_user carries  *)
(* the text of an exception that was caught: the detail of every           *)
(* HTTPException they answer with is a fixed message.                       *)
C11_Claim ==
    \A s \in Slots : \A o \in reqs[s].out :
        o.kind = "http" => Parts(o.detail) \cap ExceptionTexts = {}

(* C12: POST /register with an email a row of users already has is        *)
(* answered 400.                                                           *)
C12_Claim ==
    \A r \in Reqs("register") : \A rows \in r.seen :
        (r.pc = "done" /\ rows # {}) => \A o \in r.out : o.status = 400

\* a login that fetched a row that is not active and gave its password
DisabledLogin(r) ==
    /\ r.op = "login"
    /\ \E user \in r.seen : \E x \in user :
          ~x.is_active /\ verify_password(r.args.password, x.password_hash)

(* C13: POST /login with the password of an account that is not active is *)
(* answered 403 "Compte désactivé"; the answer carries no token, and the   *)
(* steps of the request leave the users table, last_login_at with it, as   *)
(* it was.                                                                 *)
C13_Disabled ==
    \A r \in Reqs("login") :
        DisabledLogin(r)
            => r.pending \cup r.out = {AccountDisabled} /\ AnswerTokens(r) = {}

C13_NoUpdate ==
    \A s \in Slots :
        (reqs'[s] # reqs[s] /\ DisabledLogin(reqs'[s]))
            => users' = users /\ tokens' = tokens

C13_Theorem == [](C13_Disabled) /\ [][C13_NoUpdate]_vars

\* the password of a deactivated account was given and answered 403
C13_Witness ==
    \E r \in Reqs("login") :
        /\ r.pc = "done"
        /\ DisabledLogin(r)
        /\ r.out = {AccountDisabled}

\* the tokens of the token service runs that the service issued
Issued == {h \in held : h.by # "forged"}

\* the lifetime a token was asked to have, in ticks: the caller's, or the
\* configured one
AskedLifetime(h) ==
    IF h.by = "create_refresh_token" THEN Days(REFRESH_TOKEN_EXPIRE_DAYS)
    ELSE IF h.delta # {} THEN CHOOSE d \in h.delta : TRUE
    ELSE Minutes(ACCESS_TOKEN_EXPIRE_MINUTES)

\* the same with a caller's lifetime of zero taken as none given
UsedLifetime(h) ==
    IF h.by = "create_access_token" /\ h.delta \notin {{}, {0}}
    THEN CHOOSE d \in h.delta : TRUE
    ELSE AskedLifetime([h EXCEPT !.delta = {}])

\* type is "access" or "refresh" after the function, and the claims given
\* are carried as they were
CarriesKindAndData(h) ==
    /\ h.token.payload.type = (IF h.by = "create_access_token" THEN "access" ELSE "refresh")
    /\ DOMAIN h.token.payload = DOMAIN h.data \cup {"exp", "type"}
    /\ \A k \in DOMAIN h.data : h.token.payload[k] = h.data[k]

---------------------------------------------------------------------------
(* The functions of utils/security.py that read no state, called on their *)
(* own: res holds the last call.                                           *)

\* the user types and the entries of allowed_types of these calls
UserTypes == {"retail", "premium", "admin"}
AllowedEntries == UserTypes \cup {"*"}

\* the users handed to user_type_checker
CallUsers ==
    {[id |-> SubA, email |-> "a@x.com", user_type |-> t, is_active |-> TRUE] :
        t \in UserTypes}

CallUserTypeChecker ==
    /\ \E user \in CallUsers, allowed_types \in SUBSET AllowedEntries :
          res' = {[fn |-> "user_type_checker", user |-> user,
                   allowed_types |-> allowed_types,
                   out |-> user_type_checker(user, allowed_types)]}
    /\ UNCHANGED <<now, held, limiter, user_preferences, transactions, holdings>>
    /\ TokFrame

\* verify_password(plain_password, get_password_hash(password))
CallVerifyPassword ==
    /\ \E password \in AnyPasswords, plain_password \in AnyPasswords,
          backend \in Backends :
          res' = {[fn |-> "verify_password", password |-> password,
                   plain_password |-> plain_password, backend |-> backend,
                   out |-> IF backend = "raises"
                                /\ (TooLong(password) \/ TooLong(plain_password))
                           THEN Raise("ValueError")
                           ELSE Ok(verify_password(plain_password,
                                                   get_password_hash(password)))]}
    /\ UNCHANGED <<now, held, limiter, user_preferences, transactions, holdings>>
    /\ TokFrame

\* the tokens handed to POST /refresh: forged ones, and access and refresh
\* tokens made by the service at instant 0 for every data of the model
RefreshCandidates ==
    ForgedTokens
        \cup {create_refresh_token(data, 0) : data \in TokData}
        \cup {create_access_token(data, {}, 0) : data \in TokData}

\* the instants of the calls: the start, and around the two expiries
CallInstants ==
    {0, Minutes(ACCESS_TOKEN_EXPIRE_MINUTES) - 1, Minutes(ACCESS_TOKEN_EXPIRE_MINUTES),
     Days(REFRESH_TOKEN_EXPIRE_DAYS) - 1, Days(REFRESH_TOKEN_EXPIRE_DAYS)}

\* refresh_token(refresh_token) at instant at
CallRefreshToken ==
    /\ \E token \in RefreshCandidates, at \in CallInstants :
          res' = {[fn |-> "refresh_token", token |-> token, at |-> at,
                   out |-> refresh_token(token, at)]}
    /\ UNCHANGED <<now, held, limiter, user_preferences, transactions, holdings>>
    /\ TokFrame

\* the text of a decision, character by character
Str(d) ==
    CASE d = "Achat (Fort)" -> <<"A","c","h","a","t"," ","(","F","o","r","t",")">>
      [] d = "Achat" -> <<"A","c","h","a","t">>
      [] d = "Vente" -> <<"V","e","n","t","e">>
      [] d = "Neutre" -> <<"N","e","u","t","r","e">>

\* needle in hay
In(needle, hay) ==
    \E i \in 0..(Len(hay) - Len(needle)) :
        SubSeq(hay, i + 1, i + Len(needle)) = needle

\* the number of columns of the decisions selected, and the divisor of the
\* strength
SignalCount == 5

\* a decision of the row: NULL, or a text
Decisions == {{}, {"Achat"}, {"Achat (Fort)"}, {"Vente"}, {"Neutre"}}

\* the rows the two queries may find: none, or the five decisions
SignalRows == {{}} \cup {{row} : row \in [1..SignalCount -> Decisions]}

\* sum(1 for d in result if d and word in str(d)), over the decisions equal
\* to the word only
Signals_Equal(result, word) ==
    Cardinality({i \in DOMAIN result : result[i] = {word}})

\* sum(1 for d in result if d and word in str(d))
Signals(result, word) ==
    Cardinality({i \in DOMAIN result :
        /\ result[i] # {}
        /\ \E d \in result[i] : d # "" /\ In(Str(word), Str(d))})

\* get_technical_analysis(symbol, current_user), where found is the latest
\* row of the company at its query: the decisions are the fields kept here
get_technical_analysis(symbol, found) ==
    IF found = {}
    THEN Http(404, <<"Analyse technique non disponible pour ", symbol>>)
    ELSE LET result == CHOOSE r \in found : TRUE
         IN  Ok([mm_decision |-> result[1], bollinger_decision |-> result[2],
                 macd_decision |-> result[3], rsi_decision |-> result[4],
                 stochastic_decision |-> result[5]])

\* get_trading_signals(symbol, current_user), where found is the latest row
\* at its query and again the one at the query of get_technical_analysis
get_trading_signals(symbol, found, again) ==
    IF found = {} THEN Http(404, <<"Signaux non disponibles">>)
    ELSE LET result == CHOOSE r \in found : TRUE
             buy_signals == Signals(result, "Achat")
             sell_signals == Signals(result, "Vente")
             overall == IF buy_signals > sell_signals THEN "Achat"
                        ELSE IF sell_signals > buy_signals THEN "Vente"
                        ELSE "Neutre"
             strength == IF buy_signals > sell_signals
                         THEN (buy_signals * 100) \div SignalCount
                         ELSE IF sell_signals > buy_signals
                         THEN (sell_signals * 100) \div SignalCount
                         ELSE 50
             tech_analysis == get_technical_analysis(symbol, again)
         IN  IF tech_analysis.kind # "ok" THEN tech_analysis
             ELSE Ok([symbol |-> symbol,
                      overall_signal |-> overall,
                      signal_strength |-> strength,
                      indicators |-> tech_analysis.value,
                      recommendation |-> <<overall, " - Force: ", strength, "%">>])

CallsNext ==
    \/ CallUserTypeChecker
    \/ CallVerifyPassword
    \/ CallRefreshToken

SpecCalls == TokInit /\ [][CallsNext]_vars

\* the requests for the signals of a company: the latest row at the query
\* of get_trading_signals, and the same row or none at the query of
\* get_technical_analysis
SignalRequests ==
    {q \in [fn : {"GET /{symbol}/signals"}, found : SignalRows, again : SignalRows] :
        q.again \in {{}, q.found}}

SignalsInit ==
    /\ limiter = LimiterStart
    /\ user_preferences = NoTable
    /\ transactions = {}
    /\ holdings = {}
    /\ now = 0
    /\ held = {}
    /\ \E q \in SignalRequests : res = {q}
    /\ users = [u \in UserIds |-> {}]
    /\ usedIds = {}
    /\ portfolios = {}
    /\ tokens = {}
    /\ reqs = <<>>

\* the request is served
CallTradingSignals ==
    /\ \E q \in res :
          /\ q \in SignalRequests
          /\ res' = {[fn |-> "get_trading_signals", found |-> q.found,
                      again |-> q.again,
                      out |-> get_trading_signals("SNTS", q.found, q.again)]}
    /\ UNCHANGED <<now, held, limiter, user_preferences, transactions, holdings>>
    /\ TokFrame

SignalsNext == CallTradingSignals

SpecSignals == SignalsInit /\ [][SignalsNext]_vars

\* the calls of a function among the last calls
Calls(fn) == {c \in res : c.fn = fn}

(* C15: user_type_checker of require_user_type(allowed_types) returns the  *)
(* user when the user's user_type is an element of allowed_types and       *)
(* raises 403 "Accès interdit pour ce type d'utilisateur" when it is not:  *)
(* no user type stands for another, and no entry of the list for all.      *)
C15_Theorem ==
    \A c \in Calls("user_type_checker") :
        /\ c.user.user_type \in c.allowed_types => c.out = Ok(c.user)
        /\ c.user.user_type \notin c.allowed_types => c.out = Forbidden

\* an admin was refused where the list names "retail", "premium" and "*"
C15_Witness ==
    \E c \in Calls("user_type_checker") :
        /\ c.user.user_type = "admin"
        /\ c.allowed_types = {"retail", "premium", "*"}
        /\ c.out = Forbidden

---------------------------------------------------------------------------
(* Accounts are made and logged into, and protected endpoints called, one *)
(* request at a time, while the clock advances and accounts are            *)
(* deactivated; each step of get_current_user and of user_type_checker is  *)
(* taken once it can be: the calls they make return or raise.              *)

NextAuth ==
    \/ \E s \in Slots : StartRegister(s)
    \/ \E s \in Slots : RConnect(s)
    \/ \E s \in Slots : RSelect(s)
    \/ \E s \in Slots : RInsertUser(s)
    \/ \E s \in Slots : RInsertPortfolio(s)
    \/ \E s \in Slots : RClose(s)
    \/ \E s \in Slots : StartLogin(s)
    \/ \E s \in Slots : LConnect(s)
    \/ \E s \in Slots : LBody(s)
    \/ \E s \in Slots : LClose(s)
    \/ \E s \in Slots : StartPortfolios(s)
    \/ \E s \in Slots : GcuDecode(s)
    \/ \E s \in Slots : GcuConnect(s)
    \/ \E s \in Slots : GcuQuery(s)
    \/ \E s \in Slots : GcuClose(s)
    \/ \E s \in Slots : Authorize(s)
    \/ \E s \in Slots : HConnect(s)
    \/ \E s \in Slots : HBody(s)
    \/ \E s \in Slots : HClose(s)
    \/ \E s \in Slots : Deliver(s)
    \/ Deactivate
    \/ Jump
    \/ Expire

AuthStep ==
    \E s \in Slots :
        \/ GcuDecode(s)
        \/ GcuConnect(s)
        \/ GcuQuery(s)
        \/ GcuClose(s)
        \/ Authorize(s)

SpecLive == Init /\ [][NextAuth]_vars /\ WF_vars(AuthStep)

\* the request is with get_current_user or user_type_checker
Authenticating(r) ==
    r.op = "portfolios"
        /\ r.pc \in {"decode", "gcu_connect", "gcu_query", "gcu_close", "authorize"}

\* the request was let through to its endpoint, or was refused
Proceeds(r) == r.op = "portfolios" /\ Authorized(r) /\ r.pc \notin {"authorize"}
Refused(r) == r.op = "portfolios" /\ r.pc = "done" /\ ~r.entered

\* a check of the request has failed: the exception is on its way out
Failed(r) ==
    r.op = "portfolios" /\ \E p \in r.pending \cup r.out : p.kind # "ok" /\ ~r.entered

C16_OneOutcome ==
    \A r \in Reqs("portfolios") :
        /\ ~(Proceeds(r) /\ Refused(r))
        /\ r.lookups <= 1
        /\ Failed(r) => ~Authorized(r) \/ r.out = {Forbidden}

C16_FailureIsFinal ==
    \A s \in Slots :
        Failed(reqs[s])
            => \/ reqs'[s] = reqs[s]
               \/ reqs'[s] = IdleReq /\ reqs[s].pc = "done"
               \/ /\ reqs[s].pc = "gcu_close"
                  /\ reqs'[s] = Finish([reqs[s] EXCEPT !.conns = 0], CHOOSE p \in reqs[s].pending : TRUE)

C16_Ends ==
    \A s \in {1} :
        (s \in Slots /\ Authenticating(reqs[s]))
            ~> (s \in Slots /\ (Proceeds(reqs[s]) \/ Refused(reqs[s])))

(* C16: a request to a protected endpoint ends authentication in exactly   *)
(* one way, let through to its endpoint or refused; once a check of it has *)
(* failed, the request does nothing more than close its connection and     *)
(* answer with that failure: it decodes, connects and looks up nothing     *)
(* again, and is not let through.                                          *)
C16_Theorem == [](C16_OneOutcome) /\ [][C16_FailureIsFinal]_vars /\ C16_Ends

\* the SELECT of get_current_user raised and the request was refused
C16_Witness ==
    \E r \in Reqs("portfolios") :
        /\ Refused(r)
        /\ r.lookups = 1
        /\ r.seen = {}
        /\ r.out = {credentials_exception}

---------------------------------------------------------------------------
(* The rate limiter at the application's boundary (api/main.py).  One      *)
(* Limiter keyed by remote address is made and attached to the             *)
(* application; no default limit and no middleware is given to it, so it   *)
(* counts the requests of the routes decorated with limiter.limit only.    *)

RATE_LIMIT_PER_MINUTE == 60

\* the "10/minute" of the one decorated route
TestLimit == 10

\* the routes of the authentication subsystem; none carries limiter.limit
AuthRoutes ==
    {"/api/v1/auth/register", "/api/v1/auth/login", "/api/v1/auth/refresh",
     "/api/v1/portfolios/"}

\* requests followed per caller within one window
MaxHits == RATE_LIMIT_PER_MINUTE + 1

LimiterFrame ==
    UNCHANGED <<now, held, res, user_preferences, transactions, holdings>> /\ TokFrame

\* GET /api/v1/test, under @limiter.limit("10/minute"): the hit is counted
\* against the caller's address and refused (429) once the limit is used up
test_endpoint(caller) ==
    /\ limiter' = IF limiter.storage[caller] < TestLimit
                      THEN [limiter EXCEPT !.storage[caller] = @ + 1]
                      ELSE limiter
    /\ LimiterFrame

\* a request to a route of the authentication subsystem: the router hands it
\* to its handler; the limiter is not consulted
AuthRequest(caller, route) ==
    /\ limiter.admitted[caller] < MaxHits
    /\ limiter' = [limiter EXCEPT !.admitted[caller] = @ + 1]
    /\ LimiterFrame

\* the minute ends: the counts of the window expire
WindowEnds ==
    /\ limiter # LimiterStart
    /\ limiter' = LimiterStart
    /\ LimiterFrame

LimiterNext ==
    \/ \E caller \in Callers : test_endpoint(caller)
    \/ \E caller \in Callers, route \in AuthRoutes : AuthRequest(caller, route)
    \/ WindowEnds

SpecLimiter == TokInit /\ [][LimiterNext]_vars

(* C17: within one window no caller has more than the quota of requests   *)
(* let in to the authentication subsystem.                                 *)
C17_Claim ==
    \A caller \in Callers : limiter.admitted[caller] <= RATE_LIMIT_PER_MINUTE

---------------------------------------------------------------------------
(* Requests served at the same time *)

\* get_current_user and the guard of the endpoint, run from start to end
\* with nothing else running: the token is read at instant at, and rows is
\* what the store holds for the token's subject (nothing, when the
\* connection or the SELECT raised)
RunAlone(token, at, rows, guard) ==
    IF token = {} THEN NotAuthenticated
    ELSE LET d == decode_token(CHOOSE t \in token : TRUE, at)
         IN  IF d.kind = "http" THEN d
             ELSE IF d.kind # "ok" THEN credentials_exception
             ELSE IF ~\E x \in rows : x.is_active THEN credentials_exception
             ELSE LET x == CHOOSE y \in rows : y.is_active
                      user == [id |-> d.value.user_id, email |-> x.email,
                               user_type |-> x.user_type, is_active |-> x.is_active]
                  IN  IF guard = {} THEN Ok(user)
                      ELSE user_type_checker(user, CHOOSE a \in guard : TRUE)

\* get_current_user and the guard are done with the request
Authenticated(r) ==
    r.op = "portfolios"
        /\ r.pc \notin {"decode", "gcu_connect", "gcu_query", "gcu_close", "authorize"}

(* C18: whatever requests are served at the same time and however their    *)
(* steps interleave, a request to a protected endpoint is let through as   *)
(* the user, or refused with the answer, that get_current_user and the     *)
(* guard give when run alone on its token, at the instant it read the      *)
(* clock, against the rows the store held for its subject when it looked.  *)
C18_Theorem ==
    \A r \in Reqs("portfolios") :
        Authenticated(r) =>
            \A a \in (IF r.at = {} THEN {now} ELSE r.at) :
                LET o == RunAlone(r.token, a, UNION r.seen, r.args.guard)
                IN  IF o.kind = "ok"
                    THEN r.user = {o.value} /\ (r.entered \/ r.pc = "h_connect")
                    ELSE r.out = {o} /\ ~r.entered

\* a request with a token of the service was let through while a request
\* with a forged token, served at the same time, was refused
C18_Witness ==
    \E s \in Slots : \E k \in Slots :
        /\ s # k
        /\ Authenticated(reqs[s]) /\ reqs[s].entered /\ reqs[s].pc # "done"
        /\ Authenticated(reqs[k]) /\ reqs[k].out = {TokenInvalid}
        /\ reqs[s].lookups = 1

\* a step of the request in slot s, taken inside get_current_user, the guard
\* or the refresh endpoint
IssuesOrVerifies(s) ==
    /\ reqs'[s] # reqs[s]
    /\ Authenticating(reqs[s]) \/ reqs[s].pc = "refresh"

C19_NoWrite ==
    \A s \in Slots :
        IssuesOrVerifies(s)
            => /\ UNCHANGED <<users, usedIds, portfolios, limiter, user_preferences, transactions, holdings, tokens>>
               /\ \A k \in Slots \ {s} : reqs'[k] = reqs[k]

C19_SameResult ==
    \A s \in Slots : \A k \in Slots :
        LET r == reqs[s]
            q == reqs[k]
        IN  /\ ( /\ Authenticated(r) /\ Authenticated(q)
                 /\ r.token = q.token /\ r.at = q.at /\ r.seen = q.seen
                 /\ r.args = q.args )
                  => /\ r.user = q.user
                     /\ Refused(r) <=> Refused(q)
                     /\ Refused(r) => r.out = q.out
            /\ ( /\ r.op = "refresh" /\ q.op = "refresh"
                 /\ r.pc = "done" /\ q.pc = "done"
                 /\ r.token = q.token /\ r.at = q.at )
                  => r.out = q.out

(* C19: a step of get_current_user, of the guard or of the refresh         *)
(* endpoint, with the tokens it verifies and issues, changes neither the   *)
(* store nor anything else the server keeps, nor another request; and two  *)
(* requests with the same token, verified at the same instant against the  *)
(* same rows, get the same result.                                         *)
C19_Theorem == [][C19_NoWrite]_vars /\ [](C19_SameResult)

\* two requests with the same token of the service have both resolved its
\* user, whose row is still in the store
C19_Witness ==
    \E s \in Slots : \E k \in Slots :
        /\ s # k
        /\ Authenticated(reqs[s]) /\ reqs[s].user # {} /\ reqs[s].lookups = 1
        /\ Authenticated(reqs[k]) /\ reqs[k].user = reqs[s].user
        /\ reqs[k].token = reqs[s].token
        /\ \A u \in reqs[s].user : users[u.id] # {}

(* C20: verify_password(q, get_password_hash(p)) is true when q is p and   *)
(* false for every other password q.                                       *)
C20_Claim ==
    \A c \in Calls("verify_password") :
        c.out = Ok(c.plain_password = c.password)

---------------------------------------------------------------------------
(* Routing (api/main.py and the decorators of api/routers/*.py).  A path   *)
(* is the sequence of its segments, "/api/v1/companies/" being             *)
(* <<"api", "v1", "companies", "">>; in the path of a route "{}" stands    *)
(* for a path parameter.                                                   *)

Route(method, path, endpoint) == [method |-> method, path |-> path, endpoint |-> endpoint]

\* the routes each router module declares, in the order of its decorators
RouterRoutes(module) ==
    CASE module = "auth" ->
            <<Route("POST", <<"register">>, "register"),
              Route("POST", <<"login">>, "login"),
              Route("GET", <<"me">>, "get_current_user_profile"),
              Route("POST", <<"refresh">>, "refresh_token")>>
      [] module = "companies" ->
            <<Route("GET", <<"">>, "get_companies"),
              Route("GET", <<"{}">>, "get_company"),
              Route("GET", <<"sectors", "list">>, "get_sectors"),
              Route("GET", <<"{}", "comparable">>, "get_comparable_companies")>>
      [] module = "market" ->
            <<Route("GET", <<"{}", "price">>, "get_price_history"),
              Route("GET", <<"{}", "quote">>, "get_quote"),
              Route("GET", <<"gainers", "top">>, "get_top_gainers"),
              Route("GET", <<"losers", "top">>, "get_top_losers"),
              Route("GET", <<"volume", "top">>, "get_top_volume")>>
      [] module = "analysis" ->
            <<Route("GET", <<"{}", "technical">>, "get_technical_analysis"),
              Route("GET", <<"{}", "signals">>, "get_trading_signals"),
              Route("GET", <<"{}", "fundamental">>, "get_fundamental_analysis")>>
      [] module = "predictions" ->
            <<Route("GET", <<"{}">>, "get_predictions")>>
      [] module = "portfolios" ->
            <<Route("GET", <<"">>, "get_my_portfolios"),
              Route("POST", <<"">>, "create_portfolio"),
              Route("POST", <<"{}", "buy">>, "buy_stock"),
              Route("GET", <<"{}", "holdings">>, "get_holdings"),
              Route("GET", <<"{}", "performance">>, "get_performance")>>
      [] module = "watchlists" ->
            <<Route("GET", <<"">>, "get_watchlists"),
              Route("POST", <<"">>, "create_watchlist"),
              Route("POST", <<"{}", "add">>, "add_to_watchlist"),
              Route("DELETE", <<"{}", "remove", "{}">>, "remove_from_watchlist"),
              Route("GET", <<"{}", "items">>, "get_watchlist_items")>>
      [] module = "alerts" ->
            <<Route("GET", <<"">>, "get_alerts"),
              Route("POST", <<"">>, "create_alert"),
              Route("DELETE", <<"{}">>, "delete_alert")>>
      [] module = "users" ->
            <<Route("GET", <<"preferences">>, "get_user_preferences"),
              Route("PUT", <<"preferences">>, "update_user_preferences"),
              Route("POST", <<"preferences", "reset">>, "reset_user_preferences")>>

\* app.include_router(module.router, prefix="/api/v1/<module>"), in order
IncludedRouters ==
    <<"auth", "companies", "market", "analysis", "predictions", "portfolios",
      "watchlists", "alerts">>

\* the routes of the router under prefix /api/v1/<module>
Prefixed(module) ==
    [i \in DOMAIN RouterRoutes(module) |->
        [RouterRoutes(module)[i] EXCEPT !.path = <<"api", "v1", module>> \o @]]

RECURSIVE Flatten(_)
Flatten(ss) == IF ss = <<>> THEN <<>> ELSE Head(ss) \o Flatten(Tail(ss))

\* app.routes: the documentation routes of FastAPI(...), the routers
\* included, then the routes declared on app
AppRoutes ==
    <<Route("GET", <<"openapi.json">>, "openapi"),
      Route("GET", <<"docs">>, "swagger_ui_html"),
      Route("GET", <<"redoc">>, "redoc_html")>>
    \o Flatten([i \in DOMAIN IncludedRouters |-> Prefixed(IncludedRouters[i])])
    \o <<Route("GET", <<"">>, "root"),
         Route("GET", <<"health">>, "health_check"),
         Route("GET", <<"api", "v1", "test">>, "test_endpoint")>>

\* the path of a route matches the path of a request
Matches(template, path) ==
    /\ Len(template) = Len(path)
    /\ \A i \in DOMAIN path :
          \/ template[i] = path[i]
          \/ template[i] = "{}" /\ path[i] # ""

\* the path with its trailing slash taken off, or put on
OtherSlash(path) ==
    IF path[Len(path)] = "" THEN SubSeq(path, 1, Len(path) - 1) ELSE path \o <<"">>

(* The router of the application: the first route whose path and method    *)
(* match gets the request; a path that matches under another method only   *)
(* is answered 405; a path that matches once its trailing slash is put on  *)
(* or taken off is answered with a redirect; anything else with 404.       *)
Dispatch(method, path) ==
    LET on(q) == {i \in DOMAIN AppRoutes : Matches(AppRoutes[i].path, q)}
        full == {i \in on(path) : AppRoutes[i].method = method}
    IN  IF full # {}
        THEN [kind |-> "endpoint", status |-> 200,
              endpoint |-> AppRoutes[CHOOSE i \in full : \A j \in full : i <= j].endpoint]
        ELSE IF on(path) # {}
        THEN [kind |-> "http", status |-> 405, endpoint |-> ""]
        ELSE IF path # <<"">> /\ on(OtherSlash(path)) # {}
        THEN [kind |-> "redirect", status |-> 307, endpoint |-> ""]
        ELSE [kind |-> "http", status |-> 404, endpoint |-> ""]

Methods == {"GET", "POST", "PUT"}

\* the paths requested: /api/v1/<first>, followed by up to MaxSegments
\* further segments
FirstSegments == {"users", "market", "companies", "portfolios"}
Segments ==
    {"preferences", "reset", "sectors", "performance", "BICC", "comparable", ""}

MaxSegments == 2

RequestPaths ==
    {<<"">>} \cup
    {<<"api", "v1", first>> \o tail :
        first \in FirstSegments,
        tail \in UNION {[1..n -> Segments] : n \in 0..MaxSegments}}

\* a request comes in and is routed
CallDispatch ==
    /\ \E method \in Methods, path \in RequestPaths :
          res' = {[fn |-> "dispatch", method |-> method, path |-> path,
                   out |-> Dispatch(method, path)]}
    /\ UNCHANGED <<now, held, limiter, user_preferences, transactions, holdings>>
    /\ TokFrame

RoutingNext == CallDispatch

SpecRouting == TokInit /\ [][RoutingNext]_vars

\* the requests test_new_endpoints.py sends with its bearer token
TestedRequests ==
    {[method |-> "GET", path |-> <<"api", "v1", "users", "preferences">>],
     [method |-> "PUT", path |-> <<"api", "v1", "users", "preferences">>],
     [method |-> "POST", path |-> <<"api", "v1", "users", "preferences", "reset">>],
     [method |-> "GET", path |-> <<"api", "v1", "market", "sectors", "performance">>],
     [method |-> "GET", path |-> <<"api", "v1", "companies", "BICC", "comparable">>]}

(* C21: each request the test script sends with its bearer token is given  *)
(* to an endpoint function by the router of the application.               *)
C21_Claim ==
    \A c \in Calls("dispatch") :
        [method |-> c.method, path |-> c.path] \in TestedRequests
            => c.out.kind = "endpoint"

---------------------------------------------------------------------------
(* api/routers/users.py: the preferences of the user the token resolves to *)

\* the columns of user_preferences a request can set
BoolFields ==
    {"notifications_enabled", "email_notifications", "sms_notifications",
     "push_notifications"}
TextFields == {"theme", "language", "default_currency", "watchlist_view", "chart_type"}
Fields == BoolFields \cup TextFields \cup {"favorite_sectors"}

\* VARCHAR(n) of CREATE TABLE user_preferences
Width(field) ==
    CASE field \in {"theme", "watchlist_view", "chart_type"} -> 20
      [] field \in {"language", "default_currency"} -> 10

\* the DEFAULT of each column, which reset_user_preferences writes as well
Defaults ==
    [theme |-> "light", language |-> "fr", notifications_enabled |-> TRUE,
     email_notifications |-> TRUE, sms_notifications |-> FALSE,
     push_notifications |-> TRUE, default_currency |-> "XOF",
     favorite_sectors |-> <<>>, watchlist_view |-> "grid",
     chart_type |-> "candlestick"]

\* a row of user_preferences, written at instant t (updated_at)
PrefRow(values, t) ==
    [f \in Fields \cup {"updated_at"} |-> IF f = "updated_at" THEN {t} ELSE values[f]]

\* a UserPreferencesUpdate: every field None ({}) unless given
NoUpdate == [f \in Fields |-> {}]

\* a theme of 21 characters
LongTheme == "xxxxxxxxxxxxxxxxxxxxx"

\* the bodies of PUT /preferences of the model: none, the one of the test
\* script, the other six fields, and single fields with falsy and long values
UpdateInputs ==
    {NoUpdate,
     [NoUpdate EXCEPT !.theme = {"dark"}, !.language = {"en"},
                      !.favorite_sectors = {<<"Banque", "Télécommunications">>},
                      !.chart_type = {"line"}],
     [NoUpdate EXCEPT !.notifications_enabled = {FALSE},
                      !.email_notifications = {FALSE},
                      !.sms_notifications = {TRUE},
                      !.push_notifications = {FALSE},
                      !.default_currency = {"EUR"},
                      !.watchlist_view = {"list"}],
     [NoUpdate EXCEPT !.theme = {"light"}],
     [NoUpdate EXCEPT !.sms_notifications = {FALSE}, !.favorite_sectors = {<<>>}],
     [NoUpdate EXCEPT !.theme = {LongTheme}]}

PreferencesNotFound == Http(404, <<"Préférences non trouvées">>)
NothingToUpdate == Http(400, <<"Aucune préférence à mettre à jour">>)

\* the value is falsy in Python: False, "" or []
Falsy(field, value) ==
    CASE field \in BoolFields -> value = FALSE
      [] field \in TextFields -> value = ""
      [] OTHER -> value = <<>>

\* an update that takes the fields that are truthy, not those that are given
Supplied_Truthy(preferences) ==
    {f \in Fields : \E v \in preferences[f] : ~Falsy(f, v)}

\* the fields for which "preferences.<field> is not None"
Supplied(preferences) == {f \in Fields : preferences[f] # {}}

\* a value given does not fit its column
TooWide(preferences) ==
    \E f \in TextFields : \E v \in preferences[f] : Len(v) > Width(f)

\* the row after UPDATE ... SET <the fields given>, updated_at = CURRENT_TIMESTAMP
Updated(row, preferences, t) ==
    [f \in Fields \cup {"updated_at"} |->
        IF f = "updated_at" THEN {t}
        ELSE IF f \in Supplied(preferences) THEN CHOOSE v \in preferences[f] : TRUE
        ELSE row[f]]

PrefFrame ==
    UNCHANGED <<now, held, limiter, transactions, holdings>> /\ TokFrame

\* the call of a handler of this router, for the properties
PrefCall(fn, current_user, preferences, out) ==
    [fn |-> fn, current_user |-> current_user, preferences |-> preferences,
     before |-> user_preferences, out |-> out]

(* GET /preferences: the table is created when it is not there, a row of   *)
(* defaults inserted when the user has none (ON CONFLICT DO NOTHING), and  *)
(* the row returned.  failing names the step that raises, "" for none.     *)
get_user_preferences(current_user) ==
    /\ \E failing \in {"", "connect", "insert"} :
          LET rows == user_preferences.rows
              made == IF rows[current_user] = {}
                      THEN [rows EXCEPT ![current_user] = {PrefRow(Defaults, now)}]
                      ELSE rows
          IN  CASE failing = "connect" ->
                     /\ UNCHANGED user_preferences
                     /\ res' = {PrefCall("get_user_preferences", current_user, NoUpdate,
                                         Raise("OperationalError"))}
                [] failing = "insert" ->
                     /\ user_preferences' = [user_preferences EXCEPT !.exists = TRUE]
                     /\ res' = {PrefCall("get_user_preferences", current_user, NoUpdate,
                                         Raise("psycopg2.Error"))}
                [] OTHER ->
                     /\ user_preferences' = [exists |-> TRUE, rows |-> made]
                     /\ res' = {PrefCall("get_user_preferences", current_user, NoUpdate,
                                         Ok(CHOOSE r \in made[current_user] : TRUE))}
    /\ PrefFrame

(* PUT /preferences: 400 when no field is given, before any statement;     *)
(* else one UPDATE ... RETURNING and a commit, 404 when it returns no row. *)
(* An exception of psycopg2 leaves the handler as it is (500) and the      *)
(* transaction uncommitted.                                                *)
update_user_preferences(current_user, preferences) ==
    /\ \E failing \in BOOLEAN :
          LET rows == user_preferences.rows
              call(o) == PrefCall("update_user_preferences", current_user, preferences, o)
              row == Updated(CHOOSE r \in rows[current_user] : TRUE, preferences, now)
          IN  IF failing
              THEN /\ UNCHANGED user_preferences
                   /\ res' = {call(Raise("OperationalError"))}
              ELSE IF Supplied(preferences) = {}
              THEN /\ UNCHANGED user_preferences
                   /\ res' = {call(NothingToUpdate)}
              ELSE IF ~user_preferences.exists
              THEN /\ UNCHANGED user_preferences
                   /\ res' = {call(Raise("UndefinedTable"))}
              ELSE IF rows[current_user] = {}
              THEN /\ UNCHANGED user_preferences
                   /\ res' = {call(PreferencesNotFound)}
              ELSE IF TooWide(preferences)
              THEN /\ UNCHANGED user_preferences
                   /\ res' = {call(Raise("StringDataRightTruncation"))}
              ELSE /\ user_preferences' =
                          [user_preferences EXCEPT !.rows[current_user] = {row}]
                   /\ res' = {call(Ok(row))}
    /\ PrefFrame

\* POST /preferences/reset: one UPDATE of every column to its default
reset_user_preferences(current_user) ==
    /\ \E failing \in BOOLEAN :
          LET rows == user_preferences.rows
              call(o) == PrefCall("reset_user_preferences", current_user, NoUpdate, o)
              row == PrefRow(Defaults, now)
          IN  IF failing
              THEN /\ UNCHANGED user_preferences
                   /\ res' = {call(Raise("OperationalError"))}
              ELSE IF ~user_preferences.exists
              THEN /\ UNCHANGED user_preferences
                   /\ res' = {call(Raise("UndefinedTable"))}
              ELSE IF rows[current_user] = {}
              THEN /\ UNCHANGED user_preferences
                   /\ res' = {call(PreferencesNotFound)}
              ELSE /\ user_preferences' =
                          [user_preferences EXCEPT !.rows[current_user] = {row}]
                   /\ res' = {call(Ok(row))}
    /\ PrefFrame

PreferencesNext ==
    \/ \E current_user \in UserIds : get_user_preferences(current_user)
    \/ \E current_user \in UserIds, preferences \in UpdateInputs :
          update_user_preferences(current_user, preferences)
    \/ \E current_user \in UserIds : reset_user_preferences(current_user)

SpecPreferences == TokInit /\ [][PreferencesNext]_vars

\* the calls of update_user_preferences and reset_user_preferences that
\* found the table, the row of the user and a working connection
PrefCalls(fn) ==
    {c \in Calls(fn) :
        /\ c.before.exists
        /\ c.before.rows[c.current_user] # {}
        /\ c.out # Raise("OperationalError")}

\* the call left the table as it was
PrefUntouched(c) == user_preferences = c.before

\* the call answered the row it wrote: the fields given set as given, the
\* other fields as they were, and the rows of the other users as they were
PrefUpdated(c) ==
    LET old == CHOOSE r \in c.before.rows[c.current_user] : TRUE
    IN  /\ c.out.kind = "ok"
        /\ user_preferences.rows[c.current_user] = {c.out.value}
        /\ \A u \in UserIds \ {c.current_user} :
              user_preferences.rows[u] = c.before.rows[u]
        /\ \A f \in Fields :
              IF c.preferences[f] # {}
              THEN c.preferences[f] = {c.out.value[f]}
              ELSE c.out.value[f] = old[f]

\* the call answered the row of defaults it wrote
PrefReset(c) ==
    /\ c.out.kind = "ok"
    /\ user_preferences.rows[c.current_user] = {c.out.value}
    /\ \A u \in UserIds \ {c.current_user} :
          user_preferences.rows[u] = c.before.rows[u]
    /\ \A f \in Fields : c.out.value[f] = Defaults[f]

(* C22: for a user with a preferences row, update_user_preferences sets    *)
(* exactly the fields given and answers the row, the other fields          *)
(* unchanged; with no field given it answers 400 and changes nothing; and  *)
(* reset_user_preferences puts every field back to its default.            *)
C22_Claim ==
    /\ \A c \in PrefCalls("update_user_preferences") :
          IF \A f \in Fields : c.preferences[f] = {}
          THEN c.out = NothingToUpdate /\ PrefUntouched(c)
          ELSE PrefUpdated(c)
    /\ \A c \in PrefCalls("reset_user_preferences") : PrefReset(c)

(* C22, amended: the same, for the values given that fit their columns     *)
(* (20 characters for theme, watchlist_view and chart_type, 10 for         *)
(* language and default_currency); with a longer value the UPDATE raises,  *)
(* the request fails and nothing is changed.                               *)
C22_Theorem ==
    /\ \A c \in PrefCalls("update_user_preferences") :
          IF \A f \in Fields : c.preferences[f] = {}
          THEN c.out = NothingToUpdate /\ PrefUntouched(c)
          ELSE IF TooWide(c.preferences)
          THEN c.out.kind = "exception" /\ PrefUntouched(c)
          ELSE PrefUpdated(c)
    /\ \A c \in PrefCalls("reset_user_preferences") : PrefReset(c)

\* an update giving False and an empty list, on a row that held True, a
\* list of sectors and the theme "dark", has set the two and left the theme
C22_Witness ==
    \E c \in PrefCalls("update_user_preferences") :
        \E old \in c.before.rows[c.current_user] :
            /\ old.sms_notifications = TRUE
            /\ old.favorite_sectors # <<>>
            /\ old.theme = "dark"
            /\ c.preferences.sms_notifications = {FALSE}
            /\ c.preferences.favorite_sectors = {<<>>}
            /\ c.out.kind = "ok"
            /\ c.out.value.sms_notifications = FALSE
            /\ c.out.value.theme = "dark"

\* a reset has answered the defaults on a row that differed from them
C22_WitnessReset ==
    \E c \in PrefCalls("reset_user_preferences") :
        \E old \in c.before.rows[c.current_user] :
            /\ \E f \in Fields : old[f] # Defaults[f]
            /\ c.out.kind = "ok"

---------------------------------------------------------------------------
\* the token is signed with SECRET_KEY under ALGORITHM, has not expired at
\* instant t and names a subject that is a UUID
Verifies(token, t) ==
    /\ ~BadSignature(token)
    /\ ~ExpiredAt(token, t)
    /\ \E sub \in Get(token.payload, "sub") : sub \in Subjects /\ ParsedSub[sub] # {}

(* C23: POST /refresh given a token that verifies answers the token it was *)
(* given as refresh token, unchanged, with an access token made at that    *)
(* instant for the same subject and email; given any other token it        *)
(* answers 401 "Refresh token invalide" and no token.                      *)
C23_Theorem ==
    \A c \in Calls("refresh_token") :
        IF Verifies(c.token, c.at)
        THEN /\ c.out.kind = "ok"
             /\ c.out.value.refresh_token = c.token
             /\ LET access == c.out.value.access_token
                IN  /\ ~BadSignature(access)
                    /\ Get(access.payload, "type") = {"access"}
                    /\ \A old \in Get(c.token.payload, "sub") :
                       \E new \in Get(access.payload, "sub") :
                          ParsedSub[new] = ParsedSub[old]
                    /\ Get(access.payload, "email") = Get(c.token.payload, "email")
                    /\ \A x \in ExpTick(access) :
                          /\ x > c.at + Minutes(ACCESS_TOKEN_EXPIRE_MINUTES) - TicksPerSecond
                          /\ x <= c.at + Minutes(ACCESS_TOKEN_EXPIRE_MINUTES)
                    /\ ExpTick(access) # {}
        ELSE c.out = RefreshInvalid

\* a refresh token one tick before its expiry was answered, itself and an
\* access token that expires later than it does
C23_Witness ==
    \E c \in Calls("refresh_token") :
        /\ Get(c.token.payload, "type") = {"refresh"}
        /\ ExpTick(c.token) = {c.at + 1}
        /\ c.out.kind = "ok"
        /\ c.out.value.refresh_token = c.token
        /\ \A x \in ExpTick(c.out.value.access_token) : x > c.at + 1

\* a token of the service without subject was answered 401
C23_WitnessNoSubject ==
    \E c \in Calls("refresh_token") :
        /\ ~BadSignature(c.token)
        /\ ~ExpiredAt(c.token, c.at)
        /\ Get(c.token.payload, "sub") = {}
        /\ c.out = RefreshInvalid

---------------------------------------------------------------------------
\* psycopg2.connect raised in get_current_user: the token was decoded and
\* the request ended before any SELECT
ConnectRaised(r) == r.td # {} /\ r.lookups = 0 /\ r.pc = "done"

\* the SELECT of get_current_user raised: it was sent and nothing was read
SelectRaised(r) == r.lookups = 1 /\ r.seen = {}

(* C24: when the connection or the SELECT of get_current_user raises, the  *)
(* request is refused with the 401 credentials error and resolves no user; *)
(* the 401 of decode_token goes out as it is, "Token expiré" for an        *)
(* expired token and "Token invalide" for one with a wrong signature.      *)
C24_Theorem ==
    \A r \in Reqs("portfolios") :
        /\ (ConnectRaised(r) \/ SelectRaised(r))
              => /\ r.user = {}
                 /\ ~r.entered
                 /\ r.pending \cup r.out = {credentials_exception}
        /\ \A t \in r.token : \A a \in r.at :
              /\ BadSignature(t) => r.out = {Http(401, <<"Token invalide">>)}
              /\ (~BadSignature(t) /\ ExpiredAt(t, a))
                    => r.out = {Http(401, <<"Token expiré">>)}

\* the connection of get_current_user raised and the request was answered
\* the credentials error
C24_Witness ==
    \E r \in Reqs("portfolios") :
        /\ ConnectRaised(r)
        /\ r.out = {credentials_exception}

\* a token of the service was answered "Token expiré" at its expiry
C24_WitnessExpired ==
    \E r \in Reqs("portfolios") : \E t \in r.token :
        /\ ~BadSignature(t)
        /\ ExpTick(t) = r.at
        /\ r.out = {Http(401, <<"Token expiré">>)}

---------------------------------------------------------------------------
\* the decisions of a row that hold the word
Holding(row, word) ==
    {i \in 1..SignalCount : \E d \in row[i] : In(Str(word), Str(d))}

(* C25: get_trading_signals answers, for the five decisions of the latest  *)
(* row, b of them holding "Achat" and s of them holding "Vente": "Achat"   *)
(* with strength floor(b/5*100) when b > s, "Vente" with floor(s/5*100)    *)
(* when s > b, "Neutre" with 50 when b = s; whatever the decisions, NULL   *)
(* ones included, the strength is in 0..100 and the recommendation reads   *)
(* "<signal> - Force: <strength>%".                                        *)
C25_Theorem ==
    \A c \in Calls("get_trading_signals") :
        /\ c.found # {} /\ c.again # {} => c.out.kind = "ok"
        /\ c.out.kind = "ok" =>
              \E row \in c.found :
                  LET b == Cardinality(Holding(row, "Achat"))
                      s == Cardinality(Holding(row, "Vente"))
                      v == c.out.value
                  IN  /\ b > s => v.overall_signal = "Achat"
                                   /\ v.signal_strength = 20 * b
                      /\ s > b => v.overall_signal = "Vente"
                                   /\ v.signal_strength = 20 * s
                      /\ b = s => v.overall_signal = "Neutre"
                                   /\ v.signal_strength = 50
                      /\ v.signal_strength \in 0..100
                      /\ v.recommendation =
                            <<v.overall_signal, " - Force: ", v.signal_strength, "%">>

\* a row with a NULL decision, one "Achat (Fort)" and one "Vente": neutral
C25_Witness ==
    \E c \in Calls("get_trading_signals") :
        /\ c.out.kind = "ok"
        /\ \E row \in c.found :
              /\ \E i \in 1..SignalCount : row[i] = {}
              /\ Cardinality(Holding(row, "Achat")) = 1
              /\ Cardinality(Holding(row, "Vente")) = 1
        /\ c.out.value.recommendation = <<"Neutre", " - Force: ", 50, "%">>

\* five decisions for buying: strength 100
C25_WitnessFull ==
    \E c \in Calls("get_trading_signals") :
        /\ c.out.kind = "ok"
        /\ c.out.value.recommendation = <<"Achat", " - Force: ", 100, "%">>

---------------------------------------------------------------------------
(* The portfolios router: api/routers/portfolios.py.  Each handler opens   *)
(* its own connection and works in one database transaction, so a handler  *)
(* is one step: what it wrote is there after its commit or not at all.     *)

\* the companies of the store by symbol: the id, and the price of the
\* latest row of historical_data ({} when there is none)
Companies ==
    [SNTS |-> [id |-> 1, price |-> {6000000}],
     BICC |-> [id |-> 2, price |-> {}]]

\* str.upper() on the symbols of the requests
Upper(symbol) ==
    CASE symbol = "snts" -> "SNTS"
      [] OTHER -> symbol

\* the bodies of POST /{portfolio_id}/buy (TransactionCreate): price is
\* optional
BuyInputs ==
    [symbol : {"snts", "BICC", "XXXX"}, quantity : {1},
     price : {{}, {0}, {7000000}}]

\* the portfolio ids of the requests: the two there are, and one there is not
PortfolioIds == {1, 2, 3}

\* the store after the two users have registered
PortfoliosInit ==
    /\ limiter = LimiterStart
    /\ user_preferences = NoTable
    /\ transactions = {}
    /\ holdings = {}
    /\ now = 0
    /\ held = {}
    /\ res = {}
    /\ users = [u \in UserIds |->
                   {[email |-> IF u = SubA THEN "a@x.com" ELSE "b@x.com",
                     password_hash |-> get_password_hash("secret123"),
                     user_type |-> "retail",
                     is_active |-> TRUE,
                     last_login_at |-> {}]}]
    /\ usedIds = UserIds
    /\ portfolios = {[id |-> IF u = SubA THEN 1 ELSE 2,
                      user_id |-> u,
                      name |-> "Portefeuille Virtuel",
                      type |-> "virtual",
                      initial_capital |-> DefaultCapital,
                      cash_balance |-> DefaultCapital] : u \in UserIds}
    /\ tokens = {}
    /\ reqs = <<>>

PortfolioFrame ==
    UNCHANGED <<now, held, limiter, user_preferences, users, usedIds, tokens, reqs>>

\* the tables a purchase writes
Book == [portfolios |-> portfolios, transactions |-> transactions,
         holdings |-> holdings]

\* the call of a handler of this router, for the properties
PortfolioCall(fn, portfolio_id, transaction, current_user, failing, out) ==
    [fn |-> fn, portfolio_id |-> portfolio_id, transaction |-> transaction,
     current_user |-> current_user, failing |-> failing, before |-> Book,
     out |-> out]

\* SELECT cash_balance FROM portfolios WHERE id = %s, whoever owns it
Owned_AnyUser(portfolio_id, current_user) ==
    {p \in portfolios : p.id = portfolio_id}

\* SELECT cash_balance FROM portfolios WHERE id = %s AND user_id = %s
Owned(portfolio_id, current_user) ==
    {p \in portfolios : p.id = portfolio_id /\ p.user_id = current_user}

\* "x if x else y" and "if not x" on an optional Decimal: None and 0 are
\* falsy
Priced(price) == price \ {0}

(* The database function create_buy_transaction(portfolio_id, company_id,  *)
(* quantity, price): the transaction row it inserts and returns the id of, *)
(* the cash it takes from the portfolio and the holding it adds to.  It    *)
(* raises when the cash does not cover the amount.                         *)
create_buy_transaction(portfolio_id, company_id, quantity, price) ==
    LET p == CHOOSE x \in portfolios : x.id = portfolio_id
        total == quantity * price
        old == {h \in holdings :
                   h.portfolio_id = portfolio_id /\ h.company_id = company_id}
        had == IF old = {} THEN [quantity |-> 0, cost |-> 0]
               ELSE CHOOSE h \in old : TRUE
        trans == [id |-> Cardinality(transactions) + 1,
                  portfolio_id |-> portfolio_id, company_id |-> company_id,
                  transaction_type |-> "buy", quantity |-> quantity,
                  price |-> price, total_amount |-> total]
    IN  IF total > p.cash_balance THEN [raised |-> TRUE]
        ELSE [raised |-> FALSE,
              transaction |-> trans,
              portfolios |-> (portfolios \ {p})
                                \cup {[p EXCEPT !.cash_balance = @ - total]},
              transactions |-> transactions \cup {trans},
              holdings |-> (holdings \ old)
                              \cup {[portfolio_id |-> portfolio_id,
                                     company_id |-> company_id,
                                     quantity |-> had.quantity + quantity,
                                     cost |-> had.cost + total]}]

BuyError(e) == Http(400, <<e>>)

(* POST /{portfolio_id}/buy.  failing names the step that raises, "" for   *)
(* none: the connection (outside the try: 500), a statement or the commit  *)
(* (psycopg2.Error: rollback, 400 with str(e)).                            *)
buy_stock(portfolio_id, transaction, current_user) ==
    /\ \E failing \in {"", "connect", "select", "function", "commit"} :
          LET call(o) == PortfolioCall("buy_stock", portfolio_id, transaction,
                                       current_user, failing, o)
              portfolio == Owned(portfolio_id, current_user)
              symbol == Upper(transaction.symbol)
              company == IF symbol \in DOMAIN Companies
                         THEN {Companies[symbol]} ELSE {}
              found == CHOOSE c \in company : TRUE
              price == IF Priced(transaction.price) # {}
                       THEN transaction.price ELSE found.price
              made == create_buy_transaction(portfolio_id, found.id,
                          transaction.quantity, CHOOSE x \in price : TRUE)
              fails(o) == /\ res' = {call(o)}
                          /\ UNCHANGED <<portfolios, transactions, holdings>>
          IN  IF failing = "connect" THEN fails(Raise("OperationalError"))
              ELSE IF failing = "select" THEN fails(BuyError("psycopg2.Error"))
              ELSE IF portfolio = {}
              THEN fails(Http(404, <<"Portefeuille non trouvé">>))
              ELSE IF company = {}
              THEN fails(Http(404, <<"Société ", transaction.symbol, " non trouvée">>))
              ELSE IF Priced(price) = {}
              THEN fails(Http(400, <<"Prix non disponible">>))
              ELSE IF failing = "function" \/ made.raised
              THEN fails(BuyError("psycopg2.Error"))
              ELSE IF failing = "commit" THEN fails(BuyError("psycopg2.Error"))
              ELSE /\ portfolios' = made.portfolios
                   /\ transactions' = made.transactions
                   /\ holdings' = made.holdings
                   /\ res' = {call(Ok(made.transaction))}
    /\ PortfolioFrame

\* GET /: SELECT ... FROM portfolios WHERE user_id = %s
get_my_portfolios(current_user) ==
    /\ \E failing \in {"", "connect"} :
          res' = {PortfolioCall("get_my_portfolios", 0, <<>>, current_user, failing,
                     IF failing = "connect" THEN Raise("OperationalError")
                     ELSE Ok({p \in portfolios : p.user_id = current_user}))}
    /\ UNCHANGED <<portfolios, transactions, holdings>>
    /\ PortfolioFrame

\* the view v_holdings_enriched: a row for each holding, with its portfolio
v_holdings_enriched == holdings

\* the view v_portfolio_performance: a row for each portfolio
v_portfolio_performance ==
    {[portfolio_id |-> p.id, name |-> p.name,
      initial_capital |-> p.initial_capital,
      cash_balance |-> p.cash_balance,
      holdings_count |-> Cardinality({h \in holdings : h.portfolio_id = p.id})] :
        p \in portfolios}

\* GET /{portfolio_id}/holdings:
\* SELECT * FROM v_holdings_enriched WHERE portfolio_id = %s
get_holdings(portfolio_id, current_user) ==
    /\ \E failing \in {"", "connect"} :
          res' = {PortfolioCall("get_holdings", portfolio_id, <<>>, current_user, failing,
                     IF failing = "connect" THEN Raise("OperationalError")
                     ELSE Ok({h \in v_holdings_enriched :
                                 h.portfolio_id = portfolio_id}))}
    /\ UNCHANGED <<portfolios, transactions, holdings>>
    /\ PortfolioFrame

\* GET /{portfolio_id}/performance:
\* SELECT * FROM v_portfolio_performance WHERE portfolio_id = %s, 404 when
\* there is no row
get_performance(portfolio_id, current_user) ==
    /\ \E failing \in {"", "connect"} :
          LET perf == {v \in v_portfolio_performance : v.portfolio_id = portfolio_id}
          IN  res' = {PortfolioCall("get_performance", portfolio_id, <<>>, current_user,
                         failing,
                         IF failing = "connect" THEN Raise("OperationalError")
                         ELSE IF perf = {}
                         THEN Http(404, <<"Portefeuille non trouvé">>)
                         ELSE Ok(CHOOSE v \in perf : TRUE))}
    /\ UNCHANGED <<portfolios, transactions, holdings>>
    /\ PortfolioFrame

PortfoliosNext ==
    \/ \E current_user \in UserIds : get_my_portfolios(current_user)
    \/ \E portfolio_id \in PortfolioIds, transaction \in BuyInputs,
          current_user \in UserIds :
          buy_stock(portfolio_id, transaction, current_user)
    \/ \E portfolio_id \in PortfolioIds, current_user \in UserIds :
          get_holdings(portfolio_id, current_user)
    \/ \E portfolio_id \in PortfolioIds, current_user \in UserIds :
          get_performance(portfolio_id, current_user)

SpecPortfolios == PortfoliosInit /\ [][PortfoliosNext]_vars

\* the call left portfolios, transactions and holdings as they were
BookUntouched(c) == Book = c.before

\* the portfolio named by the call, when it was the caller's at the call
OwnBefore(c) ==
    {p \in c.before.portfolios :
        p.id = c.portfolio_id /\ p.user_id = c.current_user}

\* the company named by the call
Known(c) == Upper(c.transaction.symbol) \in DOMAIN Companies

(* C26: buy_stock makes a transaction only in a portfolio of the caller.   *)
(* For a portfolio id that is not there or is another user's, nothing is   *)
(* changed and the answer is 404; for an unknown symbol the answer is 404; *)
(* with no price in the request and none on the market it is 400; and when *)
(* the database raises, or the request fails in any other way, no          *)
(* transaction, holding or cash balance is changed.                        *)
C26_Theorem ==
    \A c \in Calls("buy_stock") :
        /\ c.out.kind = "ok" =>
              /\ OwnBefore(c) # {}
              /\ transactions \ c.before.transactions = {c.out.value}
              /\ c.out.value.portfolio_id = c.portfolio_id
        /\ OwnBefore(c) = {} =>
              /\ BookUntouched(c)
              /\ c.failing = "" => c.out = Http(404, <<"Portefeuille non trouvé">>)
        /\ OwnBefore(c) # {} /\ c.failing = "" /\ ~Known(c) =>
              c.out = Http(404, <<"Société ", c.transaction.symbol, " non trouvée">>)
        /\ /\ OwnBefore(c) # {} /\ c.failing = "" /\ Known(c)
           /\ c.transaction.price = {}
           /\ Companies[Upper(c.transaction.symbol)].price = {}
           => c.out = Http(400, <<"Prix non disponible">>)
        /\ c.failing # "" => c.out.kind # "ok"
        /\ c.out.kind # "ok" => BookUntouched(c)

\* a user asked to buy in the portfolio of the other user, which had made a
\* purchase: 404 and nothing changed
C26_Witness ==
    \E c \in Calls("buy_stock") :
        /\ OwnBefore(c) = {}
        /\ \E p \in c.before.portfolios :
              p.id = c.portfolio_id /\ p.cash_balance < DefaultCapital
        /\ c.failing = ""
        /\ c.out.status = 404

\* the commit of a purchase the user could pay raised: 400, nothing changed
C26_WitnessRollback ==
    \E c \in Calls("buy_stock") :
        /\ OwnBefore(c) # {}
        /\ c.failing = "commit"
        /\ c.out = BuyError("psycopg2.Error")
        /\ \E p \in OwnBefore(c) : p.cash_balance = DefaultCapital
        /\ c.transaction.price = {7000000}

\* a purchase at the market price was made
C26_WitnessBought ==
    \E c \in Calls("buy_stock") :
        /\ c.out.kind = "ok"
        /\ c.transaction.price = {0}
        /\ c.out.value.price = 6000000

\* the ids of the portfolios of a user
PortfoliosOf(user) == {p.id : p \in {x \in portfolios : x.user_id = user}}

(* C30: what a user obtains or changes through the portfolio endpoints     *)
(* (list, buy, holdings, performance) is of portfolios whose user_id is    *)
(* the user's id: a request naming the portfolio of another user answers   *)
(* none of its holdings and none of its performance figures.               *)
C30_Claim ==
    \A c \in res :
        c.out.kind = "ok" =>
            CASE c.fn = "get_my_portfolios" ->
                    \A p \in c.out.value : p.user_id = c.current_user
              [] c.fn = "buy_stock" ->
                    c.out.value.portfolio_id \in PortfoliosOf(c.current_user)
              [] c.fn = "get_holdings" ->
                    \A h \in c.out.value : h.portfolio_id \in PortfoliosOf(c.current_user)
              [] c.fn = "get_performance" ->
                    c.out.value.portfolio_id \in PortfoliosOf(c.current_user)
              [] OTHER -> TRUE

---------------------------------------------------------------------------
(* One session: a user logs in at instant 0 and from then on calls POST    *)
(* /refresh with a token of the session, keeping the refresh token and the *)
(* latest access token; the clock moves to the instants at and just before *)
(* the expiries of the tokens held, in the first hours of the session and  *)
(* around the expiry of the refresh token.                                 *)

\* the instant the session is followed to
SessionEnd ==
    Days(REFRESH_TOKEN_EXPIRE_DAYS) + 2 * Minutes(ACCESS_TOKEN_EXPIRE_MINUTES)

\* the session is followed while the first access tokens expire, and from
\* one access lifetime before the expiry of the refresh token
SessionHead == 3 * Minutes(ACCESS_TOKEN_EXPIRE_MINUTES)
SessionTail == Days(REFRESH_TOKEN_EXPIRE_DAYS) - Minutes(ACCESS_TOKEN_EXPIRE_MINUTES)

\* the tokens of the answer of login
SessionTokens ==
    LET t == LoginTokens(SubA, "a@x.com", 0)
    IN  {t.access_token, t.refresh_token}

SessionInit ==
    /\ limiter = LimiterStart
    /\ user_preferences = NoTable
    /\ transactions = {}
    /\ holdings = {}
    /\ now = 0
    /\ held = {}
    /\ res = {}
    /\ users = [u \in UserIds |->
                   IF u = SubA
                   THEN {[email |-> "a@x.com",
                          password_hash |-> get_password_hash("secret123"),
                          user_type |-> "retail",
                          is_active |-> TRUE,
                          last_login_at |-> {0}]}
                   ELSE {}]
    /\ usedIds = {SubA}
    /\ portfolios = {[id |-> 1,
                      user_id |-> SubA,
                      name |-> "Portefeuille Virtuel",
                      type |-> "virtual",
                      initial_capital |-> DefaultCapital,
                      cash_balance |-> DefaultCapital]}
    /\ tokens = SessionTokens
    /\ reqs = <<>>

\* the tokens of a kind among the tokens held
OfKind(kind) == {t \in tokens : Get(t.payload, "type") = {kind}}

\* POST /refresh with a token held: the access token answered takes the
\* place of the one held
SessionRefresh ==
    /\ \E token \in tokens :
          LET out == refresh_token(token, now)
          IN  /\ res' = {[fn |-> "refresh_token", token |-> token, at |-> now,
                          out |-> out]}
              /\ tokens' = IF out.kind = "ok"
                           THEN OfKind("refresh") \cup {out.value.access_token}
                           ELSE tokens
    /\ UNCHANGED <<now, held, limiter, user_preferences, transactions, holdings,
                   users, usedIds, portfolios, reqs>>

\* time passes, to the expiry of a token held or to one tick before it
SessionTick ==
    /\ \E t \in tokens : \E x \in ExpTick(t) : \E at \in {x - 1, x} :
          /\ at > now
          /\ at <= SessionEnd
          /\ at <= SessionHead \/ at >= SessionTail
          /\ now' = at
    /\ UNCHANGED <<held, res, limiter, user_preferences, transactions, holdings,
                   users, usedIds, portfolios, tokens, reqs>>

SessionNext ==
    \/ SessionRefresh
    \/ SessionTick

SpecSession == SessionInit /\ [][SessionNext]_vars

\* POST /refresh answers tokens only to a token of kind "refresh"
C27_RefreshOnly ==
    \A c \in Calls("refresh_token") :
        c.out.kind = "ok" => Get(c.token.payload, "type") = {"refresh"}

\* no access token of the session expires later than the refresh token of
\* the login plus one access lifetime
C27_Bounded ==
    \A t \in OfKind("access") : \A x \in ExpTick(t) :
        x <= Days(REFRESH_TOKEN_EXPIRE_DAYS) + Minutes(ACCESS_TOKEN_EXPIRE_MINUTES)

(* C27: a session is not prolonged without the refresh token.  POST        *)
(* /refresh does not accept a token of kind "access", and from one login   *)
(* no sequence of refresh calls gives an access token that expires later   *)
(* than the refresh token's expiry plus one access lifetime (30 days and   *)
(* 60 minutes after the login).                                            *)
C27_Claim == C27_RefreshOnly /\ C27_Bounded

---------------------------------------------------------------------------
\* the default portfolios of a user in the store
DefaultPortfolios(u) ==
    {p \in portfolios :
        /\ p.user_id = u
        /\ p.name = "Portefeuille Virtuel"
        /\ p.type = "virtual"
        /\ p.initial_capital = 10000000
        /\ p.cash_balance = 10000000}

\* a register request that was answered an error left no row of its own
C28_ErrorLeavesNothing ==
    \A r \in Reqs("register") :
        (r.pc = "done" /\ \E o \in r.out : o.kind # "ok") =>
            \A x \in r.user :
                /\ users[x.id] = {}
                /\ \A p \in portfolios : p.user_id # x.id

\* the user of a register request that succeeded has one portfolio, the
\* default one
C28_SuccessHasDefault ==
    \A r \in Reqs("register") :
        (r.pc = "done" /\ \E o \in r.out : o.kind = "ok") =>
            \A x \in r.user :
                users[x.id] # {} =>
                    /\ Cardinality(DefaultPortfolios(x.id)) = 1
                    /\ \A p \in portfolios : p.user_id = x.id => p \in DefaultPortfolios(x.id)

\* with no register request under way, every user of the store has a
\* default portfolio
C28_EveryUser ==
    (\A r \in Reqs("register") : r.pc = "done") =>
        \A u \in UserIds : users[u] # {} => DefaultPortfolios(u) # {}

(* C28: registration is all or nothing.  When register answers an error,   *)
(* no user row and no portfolio row of the request is in the store; when   *)
(* it succeeds the new user has exactly one default portfolio              *)
(* ("Portefeuille Virtuel", virtual, capital and cash 10,000,000); and     *)
(* every registered user has a default portfolio.                          *)
C28_Claim ==
    /\ C28_ErrorLeavesNothing
    /\ C28_SuccessHasDefault
    /\ C28_EveryUser

\* the register requests for an email that were answered 201 and whose
\* account is in the store
Registered(email) ==
    {s \in Slots :
        /\ reqs[s].op = "register"
        /\ reqs[s].pc = "done"
        /\ reqs[s].args.email = email
        /\ \E o \in reqs[s].out : o.kind = "ok"
        /\ \E x \in reqs[s].user : users[x.id] # {}}

(* C29: however the steps of register requests with the same email are     *)
(* interleaved, at most one account has that email and at most one of the  *)
(* requests is answered 201.                                               *)
C29_Claim ==
    \A email \in Emails :
        /\ Cardinality(UsersByEmail(email)) <= 1
        /\ Cardinality(Registered(email)) <= 1

=============================================================================
